---- MODULE Spec2Model ----
(***************************************************************************)
(* Verification model of the query-reformulation pipeline:                 *)
(*   - LLMClient.generate            (src/src/llm_client.py)               *)
(*   - BaseMethod.reformulate_batch  (src/src/methods/base.py)             *)
(*   - QAExpand.reformulate_query    (src/src/methods/qa_expand.py)        *)
(*   - run_pipeline.main             (src/scripts/run_pipeline.py)         *)
(*   - evaluate                      (src/src/evaluation.py)               *)
(* Strings are sequences of one-character strings.                         *)
(***************************************************************************)
EXTENDS Integers, Sequences, FiniteSets, TLC

VARIABLES
    \* ---- LLMClient.generate ----
    max_retries,   \* self.max_retries
    g_n,           \* the n argument (number of completions asked for)
    attempt,       \* the loop variable of generate
    g_pc,          \* "idle" | "try" | "sleep" | "returned" | "raised"
    g_events,      \* history: the attempts and sleeps, in order
    g_result,      \* the returned list, or the raised error
    \* ---- BaseMethod.reformulate_batch ----
    queries,       \* the queries argument
    ctx_map,       \* the ctx_map argument
    b_idx,         \* position of the for loop in queries
    results,       \* the local list results
    b_pc,          \* "idle" | "loop" | "returned" | "raised"
    b_calls,       \* history: the reformulate_query calls, in order
    b_out,         \* what the caller receives
    \* ---- QAExpand.reformulate_query ----
    qa_query,      \* the query argument
    qa_pc,         \* "idle" | "DECOMPOSE" | "ANSWER" | "REFINE" | "DONE" | "raised"
    qa_calls,      \* history: the completion requests and their responses
    subquestions,  \* the local subquestions
    answers,       \* the local answers
    kept,          \* the local kept
    qa_out,        \* the returned ReformulatedQuery, or the raised error
    \* ---- run_pipeline.main ----
    grid,          \* llms, methods, datasets, retrievers (the lists main iterates)
    qfiles,        \* datasets whose queries file exists
    reform_files,  \* triples whose reformulation file exists
    run_files,     \* cells whose run file exists
    report,        \* all_results.json on disk
    all_results,   \* the dict all_results of the running main
    p_pc,          \* "idle" | "dataset" | "retrieve" | "evaluate" | "save" | "done" | "aborted"
    li, mi, di,    \* positions of the llm, method and dataset loops
    ri,            \* position of the retriever loop (retrieve or evaluate)
    run,           \* which run of the orchestrator this is
    llm_calls,     \* completion calls made by this run
    events,        \* history: the collaborator calls of this run, in order
    start_files,   \* history: reform_files when this run started
    prev_run,      \* history: how the previous run ended
    env_retr,      \* what run_retrieval does for a cell (fixed once seen)
    env_eval,      \* what the evaluation collaborator does for a cell (fixed once seen)
    \* ---- the text-composition primitives of base.py ----
    c_args,        \* the primitive called and its arguments
    c_pc,          \* "idle" | "call" | "done"
    c_out,         \* what the call returned, or the error it raised
    \* ---- one reformulate_query call of a strategy other than QAExpand ----
    s_method,      \* the strategy's registry name
    s_query,       \* the Query
    s_ctx,         \* the contexts argument
    s_params,      \* dataset tag and prompt bank ids (read by LameR)
    s_calls,       \* history: the completion calls made, in order
    s_pc,          \* "idle" | "call" | "done" | "raised"
    s_out,         \* the returned ReformulatedQuery, or the raised error
    \* ---- one call of evaluate ----
    e_metrics,     \* the metrics argument
    e_k,           \* position of the for loop in metrics
    e_results,     \* the local dict results
    e_pc,          \* "idle" | "loop" | "returned" | "raised"
    e_procs,       \* history: what each trec_eval subprocess did, in order
    e_out,         \* the returned dict, or the raised error
    \* ---- two concurrent runs of main over one output directory ----
    rc_pc,         \* per run: "idle" | "check" | "reformulate" | "write" | "stages" | "done" | "aborted"
    rc_di,         \* per run: position of the dataset loop
    rc_n,          \* per run: queries reformulated so far for the current triple
    rc_files,      \* per dataset: the reformulation file (exists, rows, last writer)
    rc_calls,      \* history, per run and dataset: completion calls made
    rc_opened,     \* history, per run: the datasets whose file the run opened for writing
    \* ---- step 1 of main for one triple, run after run ----
    f_file,        \* the reformulation file: whether it exists, and its rows
    f_pc,          \* "idle" | "check" | "batch" | "write" | "saved" | "cached"
    f_run,         \* which run of the orchestrator this is
    f_prev         \* history: how step 1 of the previous run ended

genVars == <<max_retries, g_n, attempt, g_pc, g_events, g_result>>

batchVars == <<queries, ctx_map, b_idx, results, b_pc, b_calls, b_out>>

qaVars == <<qa_query, qa_pc, qa_calls, subquestions, answers, kept, qa_out>>

pipeVars == <<grid, qfiles, reform_files, run_files, report, all_results, p_pc,
              li, mi, di, ri, run, llm_calls, events, start_files, prev_run,
              env_retr, env_eval>>

composeVars == <<c_args, c_pc, c_out>>

stratVars == <<s_method, s_query, s_ctx, s_params, s_calls, s_pc, s_out>>

evalVars == <<e_metrics, e_k, e_results, e_pc, e_procs, e_out>>

raceVars == <<rc_pc, rc_di, rc_n, rc_files, rc_calls, rc_opened>>

fileVars == <<f_file, f_pc, f_run, f_prev>>

oldVars == <<genVars, batchVars, qaVars, pipeVars>>

\* The variables of the components modelled after the orchestrator.
newVars == <<composeVars, stratVars, evalVars, raceVars, fileVars>>

\* What the actions of one component leave alone.
notCompose == <<oldVars, stratVars, evalVars, raceVars, fileVars>>
notStrat == <<oldVars, composeVars, evalVars, raceVars, fileVars>>
notEval == <<oldVars, composeVars, stratVars, raceVars, fileVars>>
notRace == <<oldVars, composeVars, stratVars, evalVars, fileVars>>
notStep1 == <<genVars, qaVars, pipeVars, composeVars, stratVars, evalVars, raceVars>>

vars == <<genVars, batchVars, qaVars, pipeVars, newVars>>

(***************************************************************************)
(* Strings                                                                 *)
(***************************************************************************)
Whitespace == {" ", "\t", "\n", "\r"}

RECURSIVE LStrip(_, _)
LStrip(s, chars) ==
    IF s # <<>> /\ Head(s) \in chars THEN LStrip(Tail(s), chars) ELSE s

RECURSIVE RStrip(_, _)
RStrip(s, chars) ==
    IF s # <<>> /\ s[Len(s)] \in chars
    THEN RStrip(SubSeq(s, 1, Len(s) - 1), chars)
    ELSE s

\* str.strip(chars)
StripChars(s, chars) == RStrip(LStrip(s, chars), chars)

\* str.strip()
Strip(s) == StripChars(s, Whitespace)

(***************************************************************************)
(* LLMClient.generate: the retry loop                                      *)
(***************************************************************************)
\* Greatest max_retries explored.
MaxRetriesBound == 4

\* Greatest n explored.
MaxN == 2

\* Errors the completion call can raise.
ApiErrors == {"RateLimitError", "APITimeoutError"}

\* Contents a completion choice can carry; None is a choice without content.
None == <<"<None>">>
Contents == {<<"k">>, <<" ", "k", "\n">>, None}

RECURSIVE Pow2(_)
Pow2(i) == IF i = 0 THEN 1 ELSE 2 * Pow2(i - 1)

\* wait = 2 ** attempt
Backoff(i) == Pow2(i)

\* A loop that gives up one attempt early.
LastAttemptEarly(a, r) == a >= r - 1

\* if attempt == self.max_retries: raise
LastAttempt(a, r) == a = r

\* What an attempt, a sleep or the whole call produced.
NoResult == [ok |-> FALSE, err |-> "", val |-> <<>>]
Raised(e) == [ok |-> FALSE, err |-> e, val |-> <<>>]
Returned(v) == [ok |-> TRUE, err |-> "", val |-> v]
AttemptEv(i, out) == [ev |-> "attempt", i |-> i, wait |-> 0, out |-> out]
SleepEv(i, w) == [ev |-> "sleep", i |-> i, wait |-> w, out |-> NoResult]

GenIdle ==
    /\ max_retries = 0
    /\ g_n = 0
    /\ attempt = 0
    /\ g_pc = "idle"
    /\ g_events = <<>>
    /\ g_result = NoResult

\* generate is entered: for attempt in range(1, self.max_retries + 1)
GenInit ==
    /\ max_retries \in 1..MaxRetriesBound
    /\ g_n \in 1..MaxN
    /\ attempt = 1
    /\ g_pc = "try"
    /\ g_events = <<>>
    /\ g_result = NoResult

\* An attempt fails with error e: raise on the last attempt, else sleep.
AttemptFails(e) ==
    IF LastAttempt(attempt, max_retries)
    THEN /\ g_pc' = "raised"
         /\ g_result' = Raised(e)
         /\ g_events' = Append(g_events, AttemptEv(attempt, Raised(e)))
         /\ UNCHANGED <<max_retries, g_n, attempt>>
         /\ UNCHANGED <<batchVars, qaVars, pipeVars, newVars>>
    ELSE /\ g_pc' = "sleep"
         /\ g_events' = g_events \o
                <<AttemptEv(attempt, Raised(e)), SleepEv(attempt, Backoff(attempt))>>
         /\ UNCHANGED <<max_retries, g_n, attempt, g_result>>
         /\ UNCHANGED <<batchVars, qaVars, pipeVars, newVars>>

\* client.chat.completions.create raises.
CreateRaises ==
    /\ g_pc = "try"
    /\ \E e \in ApiErrors : AttemptFails(e)

\* The call returns choices; the return line strips each content. A choice
\* whose content is None makes .strip() raise inside the try block, which
\* the same except clause handles as a failed attempt.
CreateReturns ==
    /\ g_pc = "try"
    /\ \E choices \in [1..g_n -> Contents] :
          IF \E k \in 1..g_n : choices[k] = None
          THEN AttemptFails("AttributeError")
          ELSE /\ g_pc' = "returned"
               /\ g_result' = Returned([k \in 1..g_n |-> Strip(choices[k])])
               /\ g_events' = Append(g_events, AttemptEv(attempt, Returned(choices)))
               /\ UNCHANGED <<max_retries, g_n, attempt>>
               /\ UNCHANGED <<batchVars, qaVars, pipeVars, newVars>>

\* time.sleep(wait) returns and the loop takes its next iteration.
SleepReturns ==
    /\ g_pc = "sleep"
    /\ attempt' = attempt + 1
    /\ g_pc' = "try"
    /\ UNCHANGED <<max_retries, g_n, g_events, g_result>>
    /\ UNCHANGED <<batchVars, qaVars, pipeVars, newVars>>


(***************************************************************************)
(* BaseMethod.reformulate_batch, with the context handling of the          *)
(* strategies that read their contexts argument                            *)
(***************************************************************************)
\* Longest query list explored.
MaxQueries == 3

\* context_k explored (csqe.py and lamer.py default to 10).
CtxK == 2

QIds == {"q1", "q2"}
Texts == {<<"a">>, <<"b", " ", "c">>}
Passages == {<<"p">>, <<"r">>}
Generations == {<<"g">>, <<"h", "\n">>}

\* Query(qid, text)
Query(qid, text) == [qid |-> qid, text |-> text]
QuerySet == {Query(i, t) : i \in QIds, t \in Texts}

\* Optional values: Python's None, or a value.
NoneOpt == [isNone |-> TRUE, val |-> <<>>]
Some(v) == [isNone |-> FALSE, val |-> v]

\* Context lists a ContextMap can hold for one qid.
CtxLists == {<<>>, <<<<"p">>>>, <<<<"p">>, <<"r">>, <<"p">>>>}

\* The ContextMaps explored: None, or a dict over any subset of the qids.
CtxMaps ==
    {NoneOpt} \cup {Some(m) : m \in UNION {[D -> CtxLists] : D \in SUBSET QIds}}

\* A lookup that falls back to some entry of the map when the qid is missing.
CtxGetFallback(cm, qid) ==
    IF cm.isNone \/ DOMAIN cm.val = {} THEN NoneOpt
    ELSE IF qid \in DOMAIN cm.val THEN Some(cm.val[qid])
    ELSE Some(cm.val[CHOOSE d \in DOMAIN cm.val : TRUE])

\* (ctx_map or {}).get(q.qid)
CtxGet(cm, qid) ==
    IF cm.isNone THEN NoneOpt
    ELSE IF qid \in DOMAIN cm.val THEN Some(cm.val[qid]) ELSE NoneOpt

Take(s, k) == SubSeq(s, 1, IF Len(s) < k THEN Len(s) ELSE k)

\* ctxs = (contexts or [])[:ctx_k]
CtxsUsed(contexts, k) == Take(IF contexts.isNone THEN <<>> ELSE contexts.val, k)

\* The ReformulatedQuery a strategy returns for query q, contexts and a
\* generation gen: qid and original copied, the contexts it rendered recorded.
ReformulateQuery(q, contexts, gen) ==
    [qid |-> q.qid,
     original |-> q.text,
     generated |-> gen,
     ctxs |-> CtxsUsed(contexts, CtxK),
     n_contexts_used |-> Len(CtxsUsed(contexts, CtxK))]

BatchIdle ==
    /\ queries = <<>>
    /\ ctx_map = NoneOpt
    /\ b_idx = 0
    /\ results = <<>>
    /\ b_pc = "idle"
    /\ b_calls = <<>>
    /\ b_out = NoResult

\* reformulate_batch is entered: results = []
BatchInit ==
    /\ queries \in UNION {[1..n -> QuerySet] : n \in 0..MaxQueries}
    /\ ctx_map \in CtxMaps
    /\ b_idx = 1
    /\ results = <<>>
    /\ b_pc = "loop"
    /\ b_calls = <<>>
    /\ b_out = NoResult

BatchCall(q, contexts, out) == [query |-> q, contexts |-> contexts, out |-> out]

\* A driver that skips a failing query and goes on with the next one.
BatchOnErrorIsolated(e) ==
    /\ b_pc' = "loop"
    /\ b_idx' = b_idx + 1
    /\ UNCHANGED <<results, b_out>>

\* reformulate_query raised: nothing in reformulate_batch catches it.
BatchOnError(e) ==
    /\ b_pc' = "raised"
    /\ b_out' = Raised(e)
    /\ UNCHANGED <<results, b_idx>>

\* One iteration of the loop whose reformulate_query call returns.
BatchQueryReturns ==
    /\ b_pc = "loop"
    /\ b_idx <= Len(queries)
    /\ \E gen \in Generations :
          LET q == queries[b_idx]
              ctxs == CtxGet(ctx_map, q.qid)
              r == ReformulateQuery(q, ctxs, gen)
          IN /\ results' = Append(results, r)
             /\ b_calls' = Append(b_calls, BatchCall(q, ctxs, Returned(r)))
    /\ b_idx' = b_idx + 1
    /\ UNCHANGED <<queries, ctx_map, b_pc, b_out>>
    /\ UNCHANGED <<genVars, qaVars, pipeVars, newVars>>

\* One iteration of the loop whose reformulate_query call raises.
BatchQueryRaises ==
    /\ b_pc = "loop"
    /\ b_idx <= Len(queries)
    /\ \E e \in ApiErrors :
          LET q == queries[b_idx]
              ctxs == CtxGet(ctx_map, q.qid)
          IN /\ b_calls' = Append(b_calls, BatchCall(q, ctxs, Raised(e)))
             /\ BatchOnError(e)
    /\ UNCHANGED <<queries, ctx_map>>
    /\ UNCHANGED <<genVars, qaVars, pipeVars, newVars>>

\* The loop is exhausted: return results
BatchReturns ==
    /\ b_pc = "loop"
    /\ b_idx > Len(queries)
    /\ b_pc' = "returned"
    /\ b_out' = Returned(results)
    /\ UNCHANGED <<queries, ctx_map, b_idx, results, b_calls>>
    /\ UNCHANGED <<genVars, qaVars, pipeVars, newVars>>

BatchNext == BatchQueryReturns \/ BatchQueryRaises \/ BatchReturns

(***************************************************************************)
(* Text composition (base.py)                                              *)
(***************************************************************************)
\* A replacement that leaves the carriage returns in.
ReplaceBreaksNoCR(s) ==
    [i \in 1..Len(s) |-> IF s[i] \in {"\n", "\t"} THEN " " ELSE s[i]]

\* text.replace("\n", " ").replace("\r", " ").replace("\t", " ")
ReplaceBreaks(s) ==
    [i \in 1..Len(s) |-> IF s[i] \in {"\n", "\r", "\t"} THEN " " ELSE s[i]]

\* while "  " in text: text = text.replace("  ", " ")
RECURSIVE CollapseSpaces(_)
CollapseSpaces(s) ==
    IF Len(s) < 2 THEN s
    ELSE IF s[1] = " " /\ s[2] = " " THEN CollapseSpaces(Tail(s))
    ELSE <<s[1]>> \o CollapseSpaces(Tail(s))

\* _clean(text)
Clean(s) ==
    StripChars(StripChars(Strip(CollapseSpaces(ReplaceBreaks(s))), {"\""}), {"'"})

\* sep.join(parts)
RECURSIVE Join(_, _)
Join(parts, sep) ==
    IF parts = <<>> THEN <<>>
    ELSE IF Len(parts) = 1 THEN parts[1]
    ELSE parts[1] \o sep \o Join(Tail(parts), sep)

\* text.split(): the maximal runs of characters that are not whitespace.
RECURSIVE Tokens(_)
Tokens(s) ==
    IF s = <<>> THEN <<>>
    ELSE IF Head(s) \in Whitespace THEN Tokens(Tail(s))
    ELSE LET rest == Tokens(Tail(s))
         IN IF Len(s) >= 2 /\ s[2] \notin Whitespace
            THEN <<<<Head(s)>> \o Head(rest)>> \o Tail(rest)
            ELSE <<<<Head(s)>>>> \o rest

\* " ".join(tokens)
JoinTokens(ts) == Join(ts, <<" ">>)

\* [x] * k
Repeat(x, k) == [i \in 1..k |-> x]

\* BaseMethod.concat_repeat(query, generated, repeats)
ConcatRepeat(query, generated, repeats) ==
    Clean(Join(Repeat(query, repeats) \o <<generated>>, <<" ">>))

(***************************************************************************)
(* QAExpand.reformulate_query                                              *)
(***************************************************************************)
\* num_subquestions explored (qa_expand.py defaults to 3).
NumSubq == 2

\* query_repeats, at its default.
QueryRepeats == 3

\* Python values that json.loads can put in a dict.
PyStr(s) == [t |-> "str", s |-> s]
PyNum == [t |-> "num", s |-> <<>>]
PyNull == [t |-> "null", s |-> <<>>]
PyList == [t |-> "list", s |-> <<>>]
PyDict == [t |-> "dict", s |-> <<>>]
EmptyStr == PyStr(<<>>)

\* What json.loads does with a text: raises, or returns a value of type t
\* (for a dict, d maps its keys to their values). A key prefix<i> is <<prefix, i>>.
LoadFails == [ok |-> FALSE, t |-> "", d |-> <<>>]
Loaded(t, d) == [ok |-> TRUE, t |-> t, d |-> d]

\* A raw completion: its segments between markdown code fences (one segment
\* when it has no fence), each with whether it starts with "json" and what
\* json.loads makes of its stripped body, and its lines (str.splitlines).
\* The fence character is written ^ here.
Segment(tag, loads) == [tag |-> tag, loads |-> loads]
TextRaw(lines) == [parts |-> <<Segment(FALSE, LoadFails)>>, lines |-> lines]
JsonRaw(loads, line) == [parts |-> <<Segment(FALSE, loads)>>, lines |-> <<line>>]
FencedRaw(tag, loads, line) ==
    [parts |-> <<Segment(FALSE, LoadFails), Segment(tag, loads), Segment(FALSE, LoadFails)>>,
     lines |-> <<<<"^", "^", "^">>, line, <<"^", "^", "^">>>>]

\* Values under the first key of the JSON objects explored, and under the others.
FirstValues == {PyStr(<<"x">>), PyStr(<<" ">>), PyNum, PyNull, PyList, PyDict}
OtherValues == {PyStr(<<"y", "\t", "z">>)}

\* The JSON objects {prefix1: .., prefix2: ..} explored, keys possibly missing.
Objects(prefix) ==
    UNION {
        {f \in [{<<prefix, i>> : i \in D} -> FirstValues \cup OtherValues] :
            \A i \in D : f[<<prefix, i>>] \in (IF i = 1 THEN FirstValues ELSE OtherValues)}
        : D \in SUBSET (1..NumSubq)}

\* The completions explored: JSON objects, JSON that is not an object,
\* fenced JSON, and plain text (bulleted lines, one line, nothing).
RawSamples ==
    {JsonRaw(Loaded("dict", f), <<"{", "}">>) : f \in Objects("answer")}
    \cup {JsonRaw(Loaded("dict", f), <<"{", "}">>) :
            f \in {g \in Objects("question") : \A k \in DOMAIN g : g[k].t \in {"str", "num"}}}
    \cup {JsonRaw(Loaded("list", <<>>), <<"[", "1", "]">>),
          JsonRaw(Loaded("num", <<>>), <<"7">>),
          [parts |-> <<Segment(TRUE, Loaded("dict", (<<"answer", 1>> :> PyStr(<<"x">>))))>>,
           lines |-> <<<<"j", "s", "o", "n", "{", "}">>>>],
          FencedRaw(TRUE, Loaded("dict", (<<"answer", 1>> :> PyStr(<<"x">>))), <<"{", "}">>),
          TextRaw(<<<<"-", " ", "x">>, <<" ", " ">>, <<"*", " ", "y", " ">>, <<"z">>>>),
          TextRaw(<<<<"-", " ", "-">>>>),
          TextRaw(<<>>)}

\* _robust_json(text)
RobustJson(raw) ==
    LET fenced == Len(raw.parts) >= 2
        seg == IF fenced THEN raw.parts[2] ELSE raw.parts[1]
    IN IF seg.tag /\ ~fenced THEN LoadFails ELSE seg.loads

\* data.get(key, "")
DictGet(d, key) == IF key \in DOMAIN d THEN d[key] ELSE EmptyStr

BulletChars == {"-", "*", " ", "\t"}

\* The except branch of _parse_list: the non-blank lines, bullets stripped,
\* padded with "" and cut to n entries.
LineSplit(raw, n) ==
    LET nonblank == SelectSeq(raw.lines, LAMBDA l : Strip(l) # <<>>)
        lines == [i \in 1..Len(nonblank) |-> PyStr(StripChars(nonblank[i], BulletChars))]
    IN Take(lines \o Repeat(EmptyStr, n), n)

\* QAExpand._parse_list(raw, n, prefix); data.get raises on a value that is
\* not a dict, which the except clause turns into the line split.
ParseList(raw, n, prefix) ==
    LET data == RobustJson(raw)
    IN IF data.ok /\ (data.t = "dict" \/ n = 0)
       THEN [i \in 1..n |-> DictGet(data.d, <<prefix, i>>)]
       ELSE LineSplit(raw, n)

\* list(range(n)), as the sequence 0 .. n-1
Range(n) == [i \in 1..n |-> i - 1]

\* A refine step that keeps nothing when its completion cannot be parsed.
ExtractKeptFailClosed(raw, n) ==
    LET data == RobustJson(raw)
        get(i) == DictGet(data.d, <<"answer", i + 1>>)
    IN IF ~data.ok THEN <<>>
       ELSE IF n > 0 /\ data.t # "dict" THEN <<>>
       ELSE IF \E i \in 0..(n - 1) : get(i).t # "str" THEN <<>>
       ELSE SelectSeq(Range(n), LAMBDA i : Strip(get(i).s) # <<>>)

\* QAExpand._extract_kept_answers(raw, n); .get on a non-dict and .strip()
\* on a value that is not a string both raise into the except clause.
ExtractKept(raw, n) ==
    LET data == RobustJson(raw)
        get(i) == DictGet(data.d, <<"answer", i + 1>>)
    IN IF ~data.ok THEN Range(n)
       ELSE IF n > 0 /\ data.t # "dict" THEN Range(n)
       ELSE IF \E i \in 0..(n - 1) : get(i).t # "str" THEN Range(n)
       ELSE SelectSeq(Range(n), LAMBDA i : Strip(get(i).s) # <<>>)

\* json.dumps({f"{prefix}{i+1}": v for i, v in enumerate(values)})
JsonDumps(prefix, values) ==
    [t |-> "json", d |-> [k \in {<<prefix, i>> : i \in 1..Len(values)} |-> values[k[2]]]]

NoPayload == [t |-> "none", d |-> <<>>]

\* self.prompts.render(prompt_id, **variables)
Render(id, query, payload) == [id |-> id, query |-> query, payload |-> payload]

\* An answer prompt that leaves the sub-questions out.
AnswerPromptBlank(subqs) ==
    Render("qa_expand_answer", <<>>, JsonDumps("question", <<>>))

SubqPrompt(q) == Render("qa_expand_subq", q.text, NoPayload)
AnswerPrompt(subqs) == Render("qa_expand_answer", <<>>, JsonDumps("question", subqs))
RefinePrompt(q, ans) == Render("qa_expand_refine", q.text, JsonDumps("answer", ans))

\* selected = [answers[i] for i in kept if i < len(answers)]
Selected(ans, kp) ==
    LET inRange == SelectSeq(kp, LAMBDA i : i < Len(ans))
    IN [j \in 1..Len(inRange) |-> ans[inRange[j] + 1]]

\* cleaned = [_clean(a) for a in selected if a.strip()], for strings
Cleaned(sel) ==
    LET nonblank == SelectSeq(sel, LAMBDA a : Strip(a.s) # <<>>)
    IN [j \in 1..Len(nonblank) |-> Clean(nonblank[j].s)]

\* Lines 53-69: a.strip() raises AttributeError on a selected answer that is
\* not a string; otherwise the ReformulatedQuery is built and returned.
Construct(q, subqs, ans, kp) ==
    IF \E j \in 1..Len(Selected(ans, kp)) : Selected(ans, kp)[j].t # "str"
    THEN Raised("AttributeError")
    ELSE Returned([qid |-> q.qid,
                   original |-> q.text,
                   reformulated |->
                       ConcatRepeat(q.text, Join(Cleaned(Selected(ans, kp)), <<" ">>),
                                    QueryRepeats),
                   metadata |-> [subquestions |-> subqs, answers |-> ans, kept_indices |-> kp]])

QACall(stage, prompt, out) == [stage |-> stage, prompt |-> prompt, out |-> out]

QAIdle ==
    /\ qa_query = Query("", <<>>)
    /\ qa_pc = "idle"
    /\ qa_calls = <<>>
    /\ subquestions = <<>>
    /\ answers = <<>>
    /\ kept = <<>>
    /\ qa_out = NoResult

\* reformulate_query is entered.
QAInit ==
    /\ qa_query \in {Query("q1", t) : t \in Texts}
    /\ qa_pc = "DECOMPOSE"
    /\ qa_calls = <<>>
    /\ subquestions = <<>>
    /\ answers = <<>>
    /\ kept = <<>>
    /\ qa_out = NoResult

\* The prompt of the stage the pipeline is in.
StagePrompt ==
    CASE qa_pc = "DECOMPOSE" -> SubqPrompt(qa_query)
      [] qa_pc = "ANSWER" -> AnswerPrompt(subquestions)
      [] qa_pc = "REFINE" -> RefinePrompt(qa_query, answers)

\* Step 1: the sub-question completion returns and is parsed.
Decompose ==
    /\ qa_pc = "DECOMPOSE"
    /\ \E raw \in RawSamples :
          /\ qa_calls' = Append(qa_calls, QACall(qa_pc, StagePrompt, Returned(raw)))
          /\ subquestions' = ParseList(raw, NumSubq, "question")
    /\ qa_pc' = "ANSWER"
    /\ UNCHANGED <<qa_query, answers, kept, qa_out>>
    /\ UNCHANGED <<genVars, batchVars, pipeVars, newVars>>

\* Step 2: the answer completion returns and is parsed.
Answer ==
    /\ qa_pc = "ANSWER"
    /\ \E raw \in RawSamples :
          /\ qa_calls' = Append(qa_calls, QACall(qa_pc, StagePrompt, Returned(raw)))
          /\ answers' = ParseList(raw, NumSubq, "answer")
    /\ qa_pc' = "REFINE"
    /\ UNCHANGED <<qa_query, subquestions, kept, qa_out>>
    /\ UNCHANGED <<genVars, batchVars, pipeVars, newVars>>

\* Step 3 and the construction: the refine completion returns, the kept
\* indices are extracted and the expanded query is built.
Refine ==
    /\ qa_pc = "REFINE"
    /\ \E raw \in RawSamples :
          LET kp == ExtractKept(raw, NumSubq)
              out == Construct(qa_query, subquestions, answers, kp)
          IN /\ qa_calls' = Append(qa_calls, QACall(qa_pc, StagePrompt, Returned(raw)))
             /\ kept' = kp
             /\ qa_out' = out
             /\ qa_pc' = IF out.ok THEN "DONE" ELSE "raised"
    /\ UNCHANGED <<qa_query, subquestions, answers>>
    /\ UNCHANGED <<genVars, batchVars, pipeVars, newVars>>

\* generate_one raises in one of the three stages (retries exhausted).
QACompletionFails ==
    /\ qa_pc \in {"DECOMPOSE", "ANSWER", "REFINE"}
    /\ \E e \in ApiErrors :
          /\ qa_calls' = Append(qa_calls, QACall(qa_pc, StagePrompt, Raised(e)))
          /\ qa_out' = Raised(e)
    /\ qa_pc' = "raised"
    /\ UNCHANGED <<qa_query, subquestions, answers, kept>>
    /\ UNCHANGED <<genVars, batchVars, pipeVars, newVars>>

QANext == Decompose \/ Answer \/ Refine \/ QACompletionFails

(***************************************************************************)
(* evaluate (evaluation.py)                                                *)
(***************************************************************************)
\* Floats: a number, or not-a-number.
Float(x) == [nan |-> FALSE, num |-> x]
NaN == [nan |-> TRUE, num |-> 0]

\* Aggregate values the collaborator prints on its "all" row.
AggValues == {7}

\* DATASETS[dataset]["eval_metrics"]
EvalMetrics(ds) ==
    IF ds = "scifact" THEN <<"ndcg_cut_10", "recall_100">>
    ELSE <<"ndcg_cut_10", "recall_1000">>

\* What one trec_eval subprocess does: prints a parseable aggregate row
\* ("ok"), exits non-zero, prints nothing usable, or exceeds the timeout.
MetricOutcomes == {"ok", "nonzero", "unusable", "timeout"}

\* evaluate(run_file, dataset): the loop over the metrics. A timeout raises
\* out of subprocess.run; a non-zero exit stores nan; an output without a
\* parseable "all" row stores nothing for that metric.
Evaluate(metrics, outs, v) ==
    IF \E k \in 1..Len(metrics) : outs[k] = "timeout"
    THEN Raised("TimeoutExpired")
    ELSE Returned([m \in {metrics[k] : k \in {j \in 1..Len(metrics) : outs[j] # "unusable"}} |->
            LET k == CHOOSE j \in 1..Len(metrics) : metrics[j] = m
            IN IF outs[k] = "ok" THEN Float(v) ELSE NaN])

(***************************************************************************)
(* run_pipeline.main                                                       *)
(***************************************************************************)
\* Runs of the orchestrator over the same output directory.
MaxRuns == 2

\* Queries in a dataset's queries file.
NumQueries == 2

\* The grids explored: the lists main iterates, in order.
Grid(l, m, d, r) == [llms |-> l, methods |-> m, datasets |-> d, retrievers |-> r]
Grids ==
    {Grid(<<"gpt-4.1">>, <<"q2k", "csqe">>, <<"dl19">>, <<"bm25", "bge">>),
     Grid(<<"gpt-4.1">>, <<"csqe">>, <<"dl19", "scifact">>, <<"bge", "bm25">>),
     Grid(<<"gpt-4.1", "qwen-7b">>, <<"q2k">>, <<"dl19">>, <<"bm25", "bge">>),
     Grid(<<"gpt-4.1">>, <<"q2k">>, <<"dl19", "dl19">>, <<"bm25", "bge">>)}

\* METHOD_REGISTRY.keys()
MethodRegistry ==
    {"genqr", "genqr_ensemble", "q2k", "q2d_zs", "q2d_fs", "q2d_cot", "qa_expand",
     "mugi", "csqe", "lamer"}

\* DATASETS.keys()
KnownDatasets ==
    {"dl19", "dl20", "dlhard", "scifact", "arguana", "covid", "fiqa", "dbpedia", "news"}

\* RETRIEVER_CONFIGS.keys()
KnownRetrievers == {"bm25", "splade", "bge"}

\* method.REQUIRES_CONTEXTS
RequiresContexts(m) == m \in {"csqe", "lamer"}

\* What run_retrieval does: writes the run file and returns ("ok"), raises
\* leaving no run file ("fail"), or raises after the subprocess has written
\* a run file ("partial").
RetrOutcomes == {"ok", "fail", "partial"}

\* What the evaluation subprocesses of one cell do, metric by metric.
EvalOutcomes ==
    {<<"ok", "ok">>, <<"nonzero", "ok">>, <<"ok", "unusable">>, <<"ok", "timeout">>}

Range1(f) == {f[i] : i \in 1..Len(f)}

CurLLM == grid.llms[li]
CurMethod == grid.methods[mi]
CurDataset == grid.datasets[di]
CurTriple == <<CurLLM, CurMethod, CurDataset>>
CurRet == grid.retrievers[ri]
CurCell == <<CurLLM, CurMethod, CurDataset, CurRet>>

\* reform_file = out_root / llm_name / method_name / f"{ds}.tsv"
ReformFile(t) == t

\* A collaborator call of this run.
Event(op, triple, ret, out, calls, file) ==
    [op |-> op, triple |-> triple, ret |-> ret, out |-> out, calls |-> calls,
     file |-> file]

\* No file passed to, or written by, a call.
NoFile == <<>>

NoMetrics == [m \in {} |-> NaN]
NoReport == [written |-> FALSE, data |-> [c \in {} |-> NoMetrics]]
NoPrevRun == [ended |-> "none", wrote |-> FALSE, data |-> [c \in {} |-> NoMetrics]]

PipeIdle ==
    /\ grid = Grid(<<>>, <<>>, <<>>, <<>>)
    /\ qfiles = {}
    /\ reform_files = {}
    /\ run_files = {}
    /\ report = NoReport
    /\ all_results = [c \in {} |-> NoMetrics]
    /\ p_pc = "idle"
    /\ li = 0 /\ mi = 0 /\ di = 0 /\ ri = 0
    /\ run = 0
    /\ llm_calls = 0
    /\ events = <<>>
    /\ start_files = {}
    /\ prev_run = NoPrevRun
    /\ env_retr = [c \in {} |-> ""]
    /\ env_eval = [c \in {} |-> <<>>]

\* main is started on an empty output directory.
PipeInit ==
    /\ grid \in Grids
    /\ qfiles \in SUBSET Range1(grid.datasets)
    /\ reform_files = {}
    /\ run_files = {}
    /\ report = NoReport
    /\ all_results = [c \in {} |-> NoMetrics]
    /\ p_pc = "dataset"
    /\ li = 1 /\ mi = 1 /\ di = 1 /\ ri = 1
    /\ run = 1
    /\ llm_calls = 0
    /\ events = <<>>
    /\ start_files = {}
    /\ prev_run = NoPrevRun
    /\ env_retr = [c \in {} |-> ""]
    /\ env_eval = [c \in {} |-> <<>>]

pipeConst == <<grid, qfiles>>

\* The next iteration of the nested loops over llms, methods and datasets,
\* or the save step after the last one.
NextDataset ==
    /\ ri' = 1
    /\ IF di < Len(grid.datasets)
       THEN /\ di' = di + 1 /\ UNCHANGED <<li, mi>> /\ p_pc' = "dataset"
       ELSE IF mi < Len(grid.methods)
       THEN /\ di' = 1 /\ mi' = mi + 1 /\ UNCHANGED li /\ p_pc' = "dataset"
       ELSE IF li < Len(grid.llms)
       THEN /\ di' = 1 /\ mi' = 1 /\ li' = li + 1 /\ p_pc' = "dataset"
       ELSE /\ UNCHANGED <<li, mi, di>> /\ p_pc' = "save"

\* The next retriever of the current loop, or the stage after the loop.
NextRetriever(after) ==
    /\ UNCHANGED <<li, mi, di>>
    /\ IF ri < Len(grid.retrievers)
       THEN ri' = ri + 1 /\ p_pc' = p_pc
       ELSE ri' = 1 /\ p_pc' = after

\* method_cls = get_method(method_name) has returned a class and the loop
\* over the datasets is at one of its iterations.
AtDataset == p_pc = "dataset" /\ CurMethod \in MethodRegistry

\* retrieve_contexts_for_queries reads DATASETS[dataset] first: for a name
\* that is not a key it can only raise.
ContextsCanReturn == RequiresContexts(CurMethod) => CurDataset \in KnownDatasets

\* An orchestrator that reformulates whether or not the file exists.
ReformNeededAlways(t) == TRUE

\* if not reform_file.exists()
ReformNeeded(t) == ReformFile(t) \notin reform_files

\* if not queries_file.exists(): [SKIP] ... continue
SkipDataset ==
    /\ AtDataset
    /\ CurDataset \notin qfiles
    /\ NextDataset
    /\ UNCHANGED <<pipeConst, reform_files, run_files, report, all_results, run,
                   llm_calls, events, start_files, prev_run, env_retr, env_eval>>
    /\ UNCHANGED <<genVars, batchVars, qaVars, newVars>>

\* Step 1, else branch: [CACHED]
ReformCached ==
    /\ AtDataset
    /\ CurDataset \in qfiles
    /\ ~ReformNeeded(CurTriple)
    /\ p_pc' = "retrieve" /\ ri' = 1
    /\ UNCHANGED <<pipeConst, reform_files, run_files, report, all_results, li, mi, di,
                   run, llm_calls, events, start_files, prev_run, env_retr, env_eval>>
    /\ UNCHANGED <<genVars, batchVars, qaVars, newVars>>

\* An orchestrator that fetches contexts for every method.
ContextEventsAlways(out) == <<Event("contexts", CurTriple, "", out, 0, NoFile)>>

\* The events of the context retrieval, when the method asks for contexts.
ContextEvents(out) ==
    IF RequiresContexts(CurMethod)
    THEN <<Event("contexts", CurTriple, "", out, 0, NoFile)>>
    ELSE <<>>

\* Step 1: contexts are fetched if required, reformulate_batch returns and
\* save_queries_tsv writes the reformulation file.
ReformReturns ==
    /\ AtDataset
    /\ CurDataset \in qfiles
    /\ ReformNeeded(CurTriple)
    /\ ContextsCanReturn
    /\ events' = events \o ContextEvents("ok")
                    \o <<Event("reformulate", CurTriple, "", "ok", NumQueries, ReformFile(CurTriple))>>
    /\ llm_calls' = llm_calls + NumQueries
    /\ reform_files' = reform_files \cup {ReformFile(CurTriple)}
    /\ p_pc' = "retrieve" /\ ri' = 1
    /\ UNCHANGED <<pipeConst, run_files, report, all_results, li, mi, di, run,
                   start_files, prev_run, env_retr, env_eval>>
    /\ UNCHANGED <<genVars, batchVars, qaVars, newVars>>

\* reformulate_batch (or the context retrieval) raised: main has no handler
\* around step 1, so the exception ends main.
ReformFailure ==
    /\ p_pc' = "aborted"
    /\ UNCHANGED <<li, mi, di, ri>>

\* Step 1: reformulate_batch raises on its j-th query (completion retries
\* exhausted); nothing is written.
ReformRaises ==
    /\ AtDataset
    /\ CurDataset \in qfiles
    /\ ReformNeeded(CurTriple)
    /\ ContextsCanReturn
    /\ \E j \in 1..NumQueries :
          /\ events' = events \o ContextEvents("ok")
                          \o <<Event("reformulate", CurTriple, "", "raised", j, NoFile)>>
          /\ llm_calls' = llm_calls + j
    /\ ReformFailure
    /\ UNCHANGED <<pipeConst, reform_files, run_files, report, all_results, run,
                   start_files, prev_run, env_retr, env_eval>>
    /\ UNCHANGED <<genVars, batchVars, qaVars, newVars>>

\* Step 1: retrieve_contexts_for_queries raises.
ContextsRaise ==
    /\ AtDataset
    /\ CurDataset \in qfiles
    /\ ReformNeeded(CurTriple)
    /\ RequiresContexts(CurMethod)
    /\ events' = events \o ContextEvents("raised")
    /\ ReformFailure
    /\ UNCHANGED <<pipeConst, reform_files, run_files, report, all_results, run,
                   llm_calls, start_files, prev_run, env_retr, env_eval>>
    /\ UNCHANGED <<genVars, batchVars, qaVars, newVars>>

\* A main that retrieves whether or not the run file exists.
RetrNeededAlways(cell) == TRUE

\* Step 2 retrieves for the retrievers whose run file does not exist.
RetrNeeded(cell) == cell \notin run_files

\* Step 2: if run_file.exists(): [CACHED] ... continue
RetrCached ==
    /\ p_pc = "retrieve"
    /\ CurCell \in run_files
    /\ NextRetriever("evaluate")
    /\ UNCHANGED <<pipeConst, reform_files, run_files, report, all_results, run,
                   llm_calls, events, start_files, prev_run, env_retr, env_eval>>
    /\ UNCHANGED <<genVars, batchVars, qaVars, newVars>>

\* The outcomes run_retrieval can have for the current cell: it reads
\* DATASETS[dataset] and RETRIEVER_CONFIGS[retriever] before anything else,
\* so for a name that is not a key it raises and writes nothing.
RetrChoices ==
    IF CurDataset \notin KnownDatasets \/ CurRet \notin KnownRetrievers THEN {"fail"}
    ELSE IF CurCell \in DOMAIN env_retr THEN {env_retr[CurCell]} ELSE RetrOutcomes

\* A main in which a failed retrieval ends the retriever loop of the triple.
AfterRetrievalFailureBreak == /\ UNCHANGED <<li, mi, di>> /\ ri' = 1 /\ p_pc' = "evaluate"

\* except Exception as e: print([ERROR]) -- the loop goes on
AfterRetrievalFailure == NextRetriever("evaluate")

\* Step 2: run_retrieval is called on the reformulation file; it returns
\* with the run file written, or raises and the exception is logged.
Retrieve ==
    /\ p_pc = "retrieve"
    /\ RetrNeeded(CurCell)
    /\ \E o \in RetrChoices :
          /\ env_retr' = (CurCell :> o) @@ env_retr
          /\ events' = Append(events,
                 Event("retrieve", CurTriple, CurRet, IF o = "ok" THEN "ok" ELSE "raised",
                       0, ReformFile(CurTriple)))
          /\ run_files' = IF o = "fail" THEN run_files ELSE run_files \cup {CurCell}
          /\ IF o = "ok" THEN NextRetriever("evaluate") ELSE AfterRetrievalFailure
    /\ UNCHANGED <<pipeConst, reform_files, report, all_results, run, llm_calls,
                   start_files, prev_run, env_eval>>
    /\ UNCHANGED <<genVars, batchVars, qaVars, newVars>>

\* A main that evaluates only the run files the report does not cover yet.
EvalNeededOnlyNew(cell) == cell \in run_files /\ cell \notin DOMAIN report.data

\* Step 3 evaluates every retriever whose run file exists, in every run.
EvalNeeded(cell) == cell \in run_files

\* Step 3: if not run_file.exists(): continue
EvalSkipped ==
    /\ p_pc = "evaluate"
    /\ ~EvalNeeded(CurCell)
    /\ IF ri < Len(grid.retrievers)
       THEN /\ ri' = ri + 1 /\ UNCHANGED <<li, mi, di, p_pc>>
       ELSE NextDataset
    /\ UNCHANGED <<pipeConst, reform_files, run_files, report, all_results, run,
                   llm_calls, events, start_files, prev_run, env_retr, env_eval>>
    /\ UNCHANGED <<genVars, batchVars, qaVars, newVars>>

EvalChoices ==
    IF CurCell \in DOMAIN env_eval THEN {env_eval[CurCell]} ELSE EvalOutcomes

\* key = f"{llm_name}/{method_name}/{ds}/{ret}"; all_results[key] = metrics
StoreMetrics(res, cell, metrics) == (cell :> metrics) @@ res

\* Step 3: evaluate is called on the run file; its metrics are stored under
\* the cell's key, or its exception is logged and the cell gets no entry.
EvaluateCell ==
    /\ p_pc = "evaluate"
    /\ EvalNeeded(CurCell)
    /\ \E o \in EvalChoices : \E v \in AggValues :
          LET out == Evaluate(EvalMetrics(CurDataset), o, v)
          IN /\ env_eval' = (CurCell :> o) @@ env_eval
             /\ events' = Append(events,
                    Event("evaluate", CurTriple, CurRet, IF out.ok THEN "ok" ELSE "raised",
                          0, NoFile))
             /\ all_results' = IF out.ok THEN StoreMetrics(all_results, CurCell, out.val)
                               ELSE all_results
    /\ IF ri < Len(grid.retrievers)
       THEN /\ ri' = ri + 1 /\ UNCHANGED <<li, mi, di, p_pc>>
       ELSE NextDataset
    /\ UNCHANGED <<pipeConst, reform_files, run_files, report, run, llm_calls,
                   start_files, prev_run, env_retr>>
    /\ UNCHANGED <<genVars, batchVars, qaVars, newVars>>

\* json.dump(all_results, f) into all_results.json
SaveReport ==
    /\ p_pc = "save"
    /\ report' = [written |-> TRUE, data |-> all_results]
    /\ events' = Append(events, Event("save", <<>>, "", "ok", 0, NoFile))
    /\ p_pc' = "done"
    /\ UNCHANGED <<pipeConst, reform_files, run_files, all_results, li, mi, di, ri, run,
                   llm_calls, start_files, prev_run, env_retr, env_eval>>
    /\ UNCHANGED <<genVars, batchVars, qaVars, newVars>>

\* The orchestrator is run again on the same grid and output directory.
StartNextRun ==
    /\ p_pc \in {"done", "aborted"}
    /\ run < MaxRuns
    /\ run' = run + 1
    /\ prev_run' = [ended |-> p_pc, wrote |-> p_pc = "done", data |-> report.data]
    /\ start_files' = reform_files
    /\ all_results' = [c \in {} |-> NoMetrics]
    /\ events' = <<>>
    /\ llm_calls' = 0
    /\ p_pc' = "dataset"
    /\ li' = 1 /\ mi' = 1 /\ di' = 1 /\ ri' = 1
    /\ UNCHANGED <<pipeConst, reform_files, run_files, report, env_retr, env_eval>>
    /\ UNCHANGED <<genVars, batchVars, qaVars, newVars>>

PipeNext ==
    \/ SkipDataset \/ ReformCached \/ ReformReturns \/ ReformRaises \/ ContextsRaise
    \/ RetrCached \/ Retrieve \/ EvalSkipped \/ EvaluateCell \/ SaveReport
    \/ StartNextRun

(***************************************************************************)
(* run_pipeline.main on names that are not keys of the registries          *)
(***************************************************************************)
\* Grids that hold a method, a dataset or a retriever that is not a key.
NameGrids ==
    {Grid(<<"gpt-4.1">>, <<"q2k", "q2x">>, <<"dl19">>, <<"bm25">>),
     Grid(<<"gpt-4.1">>, <<"q2k">>, <<"dl19", "dl21">>, <<"bm25", "bge">>),
     Grid(<<"gpt-4.1">>, <<"csqe">>, <<"dl21", "dl19">>, <<"bm25">>),
     Grid(<<"gpt-4.1">>, <<"q2k">>, <<"dl19">>, <<"bm25", "colbert">>)}

\* main is started on an empty output directory with one of these grids.
NamesInit ==
    /\ grid \in NameGrids
    /\ qfiles \in SUBSET Range1(grid.datasets)
    /\ reform_files = {}
    /\ run_files = {}
    /\ report = NoReport
    /\ all_results = [c \in {} |-> NoMetrics]
    /\ p_pc = "dataset"
    /\ li = 1 /\ mi = 1 /\ di = 1 /\ ri = 1
    /\ run = 1
    /\ llm_calls = 0
    /\ events = <<>>
    /\ start_files = {}
    /\ prev_run = NoPrevRun
    /\ env_retr = [c \in {} |-> ""]
    /\ env_eval = [c \in {} |-> <<>>]

\* method_cls = get_method(method_name): for a name that is not in
\* METHOD_REGISTRY get_method raises ValueError; the call is outside every
\* try of main, so the exception ends main.
GetMethodRaises ==
    /\ p_pc = "dataset" /\ di = 1
    /\ CurMethod \notin MethodRegistry
    /\ events' = Append(events,
           Event("get_method", <<CurLLM, CurMethod, "">>, "", "raised", 0, NoFile))
    /\ p_pc' = "aborted"
    /\ UNCHANGED <<pipeConst, reform_files, run_files, report, all_results, li, mi, di, ri,
                   run, llm_calls, start_files, prev_run, env_retr, env_eval>>
    /\ UNCHANGED <<genVars, batchVars, qaVars, newVars>>

\* The exception a raising call ends with: get_method raises a ValueError
\* whose message lists the keys of METHOD_REGISTRY; DATASETS[dataset] and
\* RETRIEVER_CONFIGS[retriever] raise a KeyError that holds the missing key
\* only; every other failure is an error of a collaborator.
ErrorOf(e) ==
    IF e.op = "get_method"
    THEN [type |-> "ValueError", names |-> MethodRegistry]
    ELSE IF e.op \in {"retrieve", "contexts"}
            /\ (e.triple[3] \notin KnownDatasets
                   \/ (e.op = "retrieve" /\ e.ret \notin KnownRetrievers))
    THEN [type |-> "KeyError", names |-> {}]
    ELSE [type |-> "RuntimeError", names |-> {}]

NamesNext == PipeNext \/ GetMethodRaises

(***************************************************************************)
(* The text-composition primitives as calls (base.py)                      *)
(***************************************************************************)
\* Largest repeats and ratio arguments explored.
MaxRepeats == 3
MaxRatio == 2

Max(a, b) == IF a >= b THEN a ELSE b

\* s * k for a string s
RepeatStr(s, k) == Join(Repeat(s, k), <<>>)

\* max(1, len(query)) in concat_adaptive, unguarded.
AdaptiveDivisorUnguarded(query) == Len(query)

\* max(1, len(query))
AdaptiveDivisor(query) == Max(1, Len(query))

\* reps = max(1, (len(generated) // max(1, len(query))) // ratio)
AdaptiveReps(query, generated, ratio) ==
    Max(1, (Len(generated) \div AdaptiveDivisor(query)) \div ratio)

\* BaseMethod.concat_adaptive(query, generated, ratio); // raises on a zero divisor.
ConcatAdaptive(query, generated, ratio) ==
    IF AdaptiveDivisor(query) = 0 \/ ratio = 0
    THEN Raised("ZeroDivisionError")
    ELSE Returned(Clean(RepeatStr(query \o <<" ">>, AdaptiveReps(query, generated, ratio))
                        \o generated))

\* parts = []; for p in passages: parts.extend([query, p])
RECURSIVE InterleaveParts(_, _)
InterleaveParts(query, passages) ==
    IF passages = <<>> THEN <<>>
    ELSE <<query, Head(passages)>> \o InterleaveParts(query, Tail(passages))

\* BaseMethod.concat_interleave(query, passages)
ConcatInterleave(query, passages) == Clean(Join(InterleaveParts(query, passages), <<" ">>))

\* The query and generated texts the primitives are called on.
ComposeQueries ==
    {<<>>, <<"a">>, <<"a", " ", "b">>, <<"\"", "a", "\"">>, <<"a", "\t", "\t", "b", "\n">>}
ComposeGenerated ==
    {<<>>, <<"g">>, <<"g", "\n", "h">>, <<" ", "g", "\r", " ", "h", "'">>,
     <<"x", "x", "x", " ", "x", "x", "x">>}
ComposePassages == {<<>>, <<<<"p">>>>, <<<<"p", "\n">>, <<"r">>>>}

ComposeCall(fn, query, generated, k, passages) ==
    [fn |-> fn, query |-> query, generated |-> generated, k |-> k, passages |-> passages]

ComposeIdle ==
    /\ c_args = ComposeCall("", <<>>, <<>>, 0, <<>>)
    /\ c_pc = "idle"
    /\ c_out = NoResult

\* One of the primitives is called.
ComposeInit ==
    /\ c_args \in
         {ComposeCall("repeat", q, g, k, <<>>) :
             q \in ComposeQueries, g \in ComposeGenerated, k \in 0..MaxRepeats}
         \cup {ComposeCall("adaptive", q, g, k, <<>>) :
             q \in ComposeQueries, g \in ComposeGenerated, k \in 1..MaxRatio}
         \cup {ComposeCall("interleave", q, <<>>, 0, ps) :
             q \in ComposeQueries, ps \in ComposePassages}
    /\ c_pc = "call"
    /\ c_out = NoResult

RepeatReturns ==
    /\ c_pc = "call" /\ c_args.fn = "repeat"
    /\ c_out' = Returned(ConcatRepeat(c_args.query, c_args.generated, c_args.k))
    /\ c_pc' = "done"
    /\ UNCHANGED c_args
    /\ UNCHANGED notCompose

AdaptiveReturns ==
    /\ c_pc = "call" /\ c_args.fn = "adaptive"
    /\ c_out' = ConcatAdaptive(c_args.query, c_args.generated, c_args.k)
    /\ c_pc' = "done"
    /\ UNCHANGED c_args
    /\ UNCHANGED notCompose

InterleaveReturns ==
    /\ c_pc = "call" /\ c_args.fn = "interleave"
    /\ c_out' = Returned(ConcatInterleave(c_args.query, c_args.passages))
    /\ c_pc' = "done"
    /\ UNCHANGED c_args
    /\ UNCHANGED notCompose

ComposeNext == RepeatReturns \/ AdaptiveReturns \/ InterleaveReturns

(***************************************************************************)
(* CSQE._extract_sentences (csqe.py)                                       *)
(***************************************************************************)
UpperLetters ==
    <<"A", "B", "C", "D", "E", "F", "G", "H", "I", "J", "K", "L", "M",
      "N", "O", "P", "Q", "R", "S", "T", "U", "V", "W", "X", "Y", "Z">>
LowerLetters ==
    <<"a", "b", "c", "d", "e", "f", "g", "h", "i", "j", "k", "l", "m",
      "n", "o", "p", "q", "r", "s", "t", "u", "v", "w", "x", "y", "z">>

LowerChar(c) ==
    IF \E i \in 1..Len(UpperLetters) : UpperLetters[i] = c
    THEN LowerLetters[CHOOSE i \in 1..Len(UpperLetters) : UpperLetters[i] = c]
    ELSE c

\* str.lower()
Lower(s) == [i \in 1..Len(s) |-> LowerChar(s[i])]

Digits == {"0", "1", "2", "3", "4", "5", "6", "7", "8", "9"}

Drop(s, k) == SubSeq(s, k + 1, Len(s))

\* Position of the first element of s in chars, 0 when there is none.
RECURSIVE FirstIn(_, _)
FirstIn(s, chars) ==
    IF s = <<>> THEN 0
    ELSE IF Head(s) \in chars THEN 1
    ELSE LET r == FirstIn(Tail(s), chars) IN IF r = 0 THEN 0 ELSE r + 1

\* Length of the longest prefix of s made of elements of chars.
RECURSIVE RunLen(_, _)
RunLen(s, chars) ==
    IF s # <<>> /\ Head(s) \in chars THEN 1 + RunLen(Tail(s), chars) ELSE 0

\* re.findall(r'"([^"]+)"', text)
RECURSIVE FindQuoted(_)
FindQuoted(s) ==
    IF s = <<>> THEN <<>>
    ELSE IF Head(s) # "\"" THEN FindQuoted(Tail(s))
    ELSE LET j == FirstIn(Tail(s), {"\""})
         IN IF j = 0 THEN <<>>
            ELSE IF j = 1 THEN FindQuoted(Tail(s))
            ELSE <<SubSeq(s, 2, j)>> \o FindQuoted(Drop(s, j + 1))

HeaderWord ==
    <<"r", "e", "l", "e", "v", "a", "n", "t", " ",
      "d", "o", "c", "u", "m", "e", "n", "t">>

\* Length of the match of r"Relevant Documents?:?\s*\n?" (ignoring case)
\* at the start of s, 0 when it does not match.
HeaderLen(s) ==
    IF Len(s) < Len(HeaderWord) \/ Lower(SubSeq(s, 1, Len(HeaderWord))) # HeaderWord
    THEN 0
    ELSE LET a == Len(HeaderWord)
             b == IF a < Len(s) /\ LowerChar(s[a + 1]) = "s" THEN a + 1 ELSE a
             c == IF b < Len(s) /\ s[b + 1] = ":" THEN b + 1 ELSE b
         IN c + RunLen(Drop(s, c), Whitespace)

\* re.sub(r"^Relevant Documents?:?\s*\n?", "", text, flags=IGNORECASE | MULTILINE)
RECURSIVE RemoveHeaders(_, _)
RemoveHeaders(s, lineStart) ==
    IF s = <<>> THEN <<>>
    ELSE IF lineStart /\ HeaderLen(s) > 0
    THEN RemoveHeaders(Drop(s, HeaderLen(s)), s[HeaderLen(s)] = "\n")
    ELSE <<Head(s)>> \o RemoveHeaders(Tail(s), Head(s) = "\n")

\* \d+[.:] matches at the start of s
MarkerAt(s) ==
    LET d == RunLen(s, Digits)
    IN d > 0 /\ d < Len(s) /\ s[d + 1] \in {".", ":"}

\* (?=\d+[.:]|$) holds at the start of s
ChunkEndsBefore(s) == s = <<>> \/ s = <<"\n">> \/ MarkerAt(s)

\* Length of the lazy (.+?) at the start of s: the least k >= 1 whose rest
\* satisfies the lookahead.
RECURSIVE LazyLen(_)
LazyLen(s) == IF ChunkEndsBefore(Tail(s)) THEN 1 ELSE 1 + LazyLen(Tail(s))

\* re.findall(r"\d+[.:]\s*(.+?)(?=\d+[.:]|$)", cleaned, re.DOTALL)
RECURSIVE FindChunks(_)
FindChunks(s) ==
    IF s = <<>> THEN <<>>
    ELSE IF ~MarkerAt(s) THEN FindChunks(Tail(s))
    ELSE LET m == RunLen(s, Digits) + 1
             w == RunLen(Drop(s, m), Whitespace)
             \* \s* gives a character back when it has reached the end
             c == IF m + w < Len(s) THEN m + w ELSE m + w - 1
         IN IF c < m THEN FindChunks(Tail(s))
            ELSE LET k == LazyLen(Drop(s, c))
                 IN <<SubSeq(s, c + 1, c + k)>> \o FindChunks(Drop(s, c + k))

\* An extraction that looks for numbered contents before quoted segments.
ExtractSentencesNumbersFirst(text) ==
    LET quoted == FindQuoted(text)
        chunks == FindChunks(RemoveHeaders(text, TRUE))
        nonblank == SelectSeq(chunks, LAMBDA c : Strip(c) # <<>>)
    IN IF chunks # <<>>
       THEN Join([i \in 1..Len(nonblank) |-> JoinTokens(Tokens(nonblank[i]))], <<" ">>)
       ELSE Join(quoted, <<" ">>)

\* CSQE._extract_sentences(text)
ExtractSentences(text) ==
    LET quoted == FindQuoted(text)
        chunks == FindChunks(RemoveHeaders(text, TRUE))
        nonblank == SelectSeq(chunks, LAMBDA c : Strip(c) # <<>>)
    IN IF quoted # <<>> THEN Join(quoted, <<" ">>)
       ELSE Join([i \in 1..Len(nonblank) |-> JoinTokens(Tokens(nonblank[i]))], <<" ">>)

(***************************************************************************)
(* The reformulation strategies (methods/*.py), QAExpand excepted          *)
(***************************************************************************)
\* Completion calls per query explored for num_calls (genqr.py), num_docs
\* (mugi.py) and num_passages (lamer.py), which default to 5.
NumCalls == 2

\* n_expansions explored (csqe.py).
NGen == 2

\* query_repeats at its default (q2k.py, q2d.py, genqr_ensemble.py).
DefaultQueryRepeats == 5

\* GenQREnsemble.NUM_INSTRUCTIONS
NumInstructions == 10

\* adaptive_ratio at its default (mugi.py).
DefaultAdaptiveRatio == 5

\* METHOD_REGISTRY without qa_expand
StratMethods ==
    {"genqr", "genqr_ensemble", "q2k", "q2d_zs", "q2d_fs", "q2d_cot", "mugi", "csqe", "lamer"}

\* ReformulatedQuery(qid, original, reformulated, metadata)
ReformulatedQuery(q, reformulated, metadata) ==
    [qid |-> q.qid, original |-> q.text, reformulated |-> reformulated,
     metadata |-> metadata]

\* A completion call: the rendered prompt, n, and the strings generate returned.
StratCall(prompt, n, out) == [prompt |-> prompt, n |-> n, out |-> out]

\* The strings the calls returned, in order.
Outputs(calls) == Join([i \in 1..Len(calls) |-> calls[i].out], <<>>)

\* f"{i+1}. {p}" for the passages of ctxs, joined by newlines
CtxBlob(ctxs) ==
    Join([i \in 1..Len(ctxs) |->
            <<CHOOSE d \in Digits : d = ToString(i)>> \o <<".", " ">> \o ctxs[i]],
         <<"\n">>)

Payload(t, d) == [t |-> t, d |-> d]

\* A GenQR that joins the query and the keywords without cleaning them.
GenQRUncleaned(q, kws) ==
    ReformulatedQuery(q, q.text \o <<" ">> \o Join(kws, <<" ">>), [keywords |-> kws])

\* GenQR.reformulate_query, lines 37-45
GenQRReformulate(q, kws) ==
    ReformulatedQuery(q, Clean(q.text \o <<" ">> \o Join(kws, <<" ">>)), [keywords |-> kws])

\* GenQREnsemble.reformulate_query, lines 39-47
EnsembleReformulate(q, kws) ==
    ReformulatedQuery(q, ConcatRepeat(q.text, Join(kws, <<" ">>), DefaultQueryRepeats),
                      [keyword_sets |-> kws])

\* A Query2Keyword that appends the keywords to one copy of the query.
Q2KAppendOnce(q, keywords) ==
    ReformulatedQuery(q, ConcatRepeat(q.text, keywords, 1), [keywords |-> keywords])

\* Query2Keyword.reformulate_query, lines 29-36
Q2KReformulate(q, keywords) ==
    ReformulatedQuery(q, ConcatRepeat(q.text, keywords, DefaultQueryRepeats),
                      [keywords |-> keywords])

\* _Q2DBase.reformulate_query, lines 32-39
Q2DReformulate(q, passage) ==
    ReformulatedQuery(q, ConcatRepeat(q.text, passage, DefaultQueryRepeats),
                      [pseudo_document |-> passage])

\* MUGI.reformulate_query, lines 35-45
MugiReformulate(q, docs) ==
    ReformulatedQuery(q,
        ConcatAdaptive(q.text, Join(docs, <<" ">>), DefaultAdaptiveRatio).val,
        [pseudo_docs |-> docs])

\* A CSQE that renders every passage it is given.
CsqeContextsAll(contexts) == IF contexts.isNone THEN <<>> ELSE contexts.val

\* ctxs = (contexts or [])[:ctx_k]
CsqeContexts(contexts) == CtxsUsed(contexts, CtxK)

\* CSQE.reformulate_query, lines 42-57
CsqeReformulate(q, contexts, keqe_passages, csqe_raw) ==
    LET csqe_sentences == [i \in 1..Len(csqe_raw) |-> ExtractSentences(csqe_raw[i])]
        parts == Repeat(q.text, NGen) \o keqe_passages \o csqe_sentences
    IN ReformulatedQuery(q, Lower(Clean(Join(parts, <<" ">>))),
           [keqe_passages |-> keqe_passages,
            csqe_sentences |-> csqe_sentences,
            n_contexts_used |-> Len(CsqeContexts(contexts))])

\* passage.strip().strip('"').strip("'")
LamerStrip(passage) == StripChars(StripChars(Strip(passage), {"\""}), {"'"})

\* LameR.reformulate_query, lines 44-56
LamerReformulate(q, contexts, outs) ==
    LET passages == [i \in 1..Len(outs) |-> LamerStrip(outs[i])]
    IN ReformulatedQuery(q, ConcatInterleave(q.text, passages),
           [generated_passages |-> passages,
            n_contexts_used |-> Len(CtxsUsed(contexts, CtxK))])

\* PromptBank.render raises KeyError for an id the bank does not hold.
RenderRaises(id, bank) == id \notin bank

\* A LameR that keeps the dataset's prompt id whatever the bank holds.
LamerPromptIdNoFallback(tag, bank) == "lamer_" \o tag

\* LameR's prompt id: the dataset's own unless the trial render raises
\* KeyError, then the generic one (lines 34-38).
LamerPromptId(tag, bank) ==
    IF RenderRaises("lamer_" \o tag, bank) THEN "lamer_msmarco" ELSE "lamer_" \o tag

\* The texts of the queries, and the strings generate returns (stripped
\* by LLMClient.generate), explored for the strategies.
StratTexts == {<<"a">>, <<"B", "\t", "c">>}
SingleCompletions ==
    {<<"k">>, <<"k", ",", " ", "m">>, <<"k", "\n", "m">>, <<"\"", "k", "\"">>,
     <<"K", "\r", "\t", "m">>}
MultiCompletions == {<<"k">>, <<"\"", "k", "\n", "M", "'">>, <<"m", "\t", "n">>}
EnsembleCompletions == {<<"k">>, <<"m", "\n", "n">>}
KeqeCompletions == {<<"P">>, <<"p", "\n", "r", "\"">>}
CsqeCompletions ==
    {<<"\"", "S", "\"", " ", "x">>, <<"1", ".", " ", "d", "\n", "2", ":", " ", "E">>,
     <<"n", "o">>}
StratContexts == {NoneOpt} \cup {Some(l) : l \in CtxLists}

\* params.get("dataset", "msmarco") and the prompt ids of the bank
Params(tag, bank) == [dataset |-> tag, bank |-> bank]
DefaultParams == Params("msmarco", {"lamer_msmarco"})
LamerParams ==
    {Params(t, b) : t \in {"msmarco", "dl19"},
                    b \in SUBSET {"lamer_msmarco", "lamer_dl19"}}

StratIdle ==
    /\ s_method = ""
    /\ s_query = Query("", <<>>)
    /\ s_ctx = NoneOpt
    /\ s_params = DefaultParams
    /\ s_calls = <<>>
    /\ s_pc = "idle"
    /\ s_out = NoResult

\* reformulate_query is entered.
StratInit ==
    /\ s_method \in StratMethods
    /\ s_query \in {Query("q1", t) : t \in StratTexts}
    /\ s_ctx \in (IF RequiresContexts(s_method) THEN StratContexts ELSE {NoneOpt})
    /\ s_params \in (IF s_method = "lamer" THEN LamerParams ELSE {DefaultParams})
    /\ s_calls = <<>>
    /\ s_pc = "call"
    /\ s_out = NoResult

\* A completion call returns; after the last of the planned calls the
\* strategy composes and returns its ReformulatedQuery.
CallReturns(call, planned, Result(_)) ==
    LET calls == Append(s_calls, call)
    IN /\ s_pc = "call"
       /\ s_calls' = calls
       /\ IF Len(calls) = planned
          THEN s_out' = Returned(Result(calls)) /\ s_pc' = "done"
          ELSE UNCHANGED <<s_out, s_pc>>
       /\ UNCHANGED <<s_method, s_query, s_ctx, s_params>>
       /\ UNCHANGED notStrat

Prompt(id) == Render(id, s_query.text, NoPayload)

\* GenQR.reformulate_query: num_calls completions
GenQRCall ==
    /\ s_method = "genqr"
    /\ \E o \in MultiCompletions :
          CallReturns(StratCall(Prompt("genqr"), 1, <<o>>), NumCalls,
                      LAMBDA cs : GenQRReformulate(s_query, Outputs(cs)))

\* GenQREnsemble.reformulate_query: one completion per instruction
EnsembleCall ==
    /\ s_method = "genqr_ensemble"
    /\ \E o \in EnsembleCompletions :
          CallReturns(StratCall(Prompt("genqr_ens_" \o ToString(Len(s_calls) + 1)), 1, <<o>>),
                      NumInstructions,
                      LAMBDA cs : EnsembleReformulate(s_query, Outputs(cs)))

\* Query2Keyword.reformulate_query: one completion
Q2KCall ==
    /\ s_method = "q2k"
    /\ \E o \in SingleCompletions :
          CallReturns(StratCall(Prompt("q2k"), 1, <<o>>), 1,
                      LAMBDA cs : Q2KReformulate(s_query, Outputs(cs)[1]))

\* _Q2DBase.reformulate_query: one completion; the few-shot prompt carries examples
Q2DCall ==
    /\ s_method \in {"q2d_zs", "q2d_fs", "q2d_cot"}
    /\ \E o \in SingleCompletions :
          CallReturns(
              StratCall(Render(s_method, s_query.text,
                               IF s_method = "q2d_fs" THEN Payload("examples", <<>>)
                               ELSE NoPayload),
                        1, <<o>>),
              1, LAMBDA cs : Q2DReformulate(s_query, Outputs(cs)[1]))

\* A MUGI that asks for one pseudo-document whatever num_docs is.
MugiCallOnce ==
    /\ s_method = "mugi"
    /\ \E o \in MultiCompletions :
          CallReturns(StratCall(Prompt("mugi"), 1, <<o>>), 1,
                      LAMBDA cs : MugiReformulate(s_query, Outputs(cs)))

\* MUGI.reformulate_query: num_docs completions
MugiCall ==
    /\ s_method = "mugi"
    /\ \E o \in MultiCompletions :
          CallReturns(StratCall(Prompt("mugi"), 1, <<o>>), NumCalls,
                      LAMBDA cs : MugiReformulate(s_query, Outputs(cs)))

\* CSQE.reformulate_query, step 1: the knowledge-track call, n = n_expansions
CsqeKeqeCall ==
    /\ s_method = "csqe" /\ Len(s_calls) = 0
    /\ \E outs \in [1..NGen -> KeqeCompletions] :
          CallReturns(StratCall(Prompt("keqe"), NGen, outs), 2,
                      LAMBDA cs : NoResult)

\* CSQE.reformulate_query, steps 2 and 3: the context-track call over the
\* rendered passages, the extraction and the concatenation
CsqeCsqeCall ==
    /\ s_method = "csqe" /\ Len(s_calls) = 1
    /\ \E outs \in [1..NGen -> CsqeCompletions] :
          CallReturns(
              StratCall(Render("csqe", s_query.text,
                               Payload("contexts", CtxBlob(CsqeContexts(s_ctx)))),
                        NGen, outs),
              2, LAMBDA cs : CsqeReformulate(s_query, s_ctx, cs[1].out, cs[2].out))

\* LameR.reformulate_query: num_passages completions over the rendered passages
LamerCall ==
    /\ s_method = "lamer"
    /\ ~RenderRaises(LamerPromptId(s_params.dataset, s_params.bank), s_params.bank)
    /\ \E o \in MultiCompletions :
          CallReturns(
              StratCall(Render(LamerPromptId(s_params.dataset, s_params.bank), s_query.text,
                               Payload("contexts", CtxBlob(CtxsUsed(s_ctx, CtxK)))),
                        1, <<o>>),
              NumCalls, LAMBDA cs : LamerReformulate(s_query, s_ctx, Outputs(cs)))

\* LameR.reformulate_query, line 42: the render of the first completion
\* raises when the bank does not hold the chosen id either.
LamerRenderRaises ==
    /\ s_method = "lamer"
    /\ s_pc = "call"
    /\ RenderRaises(LamerPromptId(s_params.dataset, s_params.bank), s_params.bank)
    /\ s_out' = Raised("KeyError")
    /\ s_pc' = "raised"
    /\ UNCHANGED <<s_method, s_query, s_ctx, s_params, s_calls>>
    /\ UNCHANGED notStrat

\* generate raises (retries exhausted): no strategy catches it.
StratCompletionFails ==
    /\ s_pc = "call"
    /\ s_method = "lamer" =>
          ~RenderRaises(LamerPromptId(s_params.dataset, s_params.bank), s_params.bank)
    /\ \E e \in ApiErrors : s_out' = Raised(e)
    /\ s_pc' = "raised"
    /\ UNCHANGED <<s_method, s_query, s_ctx, s_params, s_calls>>
    /\ UNCHANGED notStrat

StratNext ==
    \/ GenQRCall \/ EnsembleCall \/ Q2KCall \/ Q2DCall \/ MugiCall
    \/ CsqeKeqeCall \/ CsqeCsqeCall \/ LamerCall \/ LamerRenderRaises
    \/ StratCompletionFails

\* The batch driver over Query2Keyword: queries and keyword completions explored.
Q2KTexts == {<<"c", " ", "c">>, <<"s", "p">>, <<"B", "\t", "c">>}
Q2KKeywords == {<<"w", ",", " ", "e">>, <<"p", ",", " ", "n">>, <<"k", "\n", "m", "\"">>}

\* A Query2Keyword that records the cleaned keywords in the metadata.
Q2KReformulateCleanedMetadata(q, keywords) ==
    ReformulatedQuery(q, ConcatRepeat(q.text, keywords, DefaultQueryRepeats),
                      [keywords |-> Clean(keywords)])

\* Query2Keyword.reformulate_query as the batch driver calls it
Q2KReformulateQuery(q, keywords) == Q2KReformulate(q, keywords)

\* reformulate_batch is entered on two queries, without ContextMap.
Q2KBatchInit ==
    /\ queries \in {<<Query("q1", t1), Query("q2", t2)>> : t1, t2 \in Q2KTexts}
    /\ ctx_map = NoneOpt
    /\ b_idx = 1
    /\ results = <<>>
    /\ b_pc = "loop"
    /\ b_calls = <<>>
    /\ b_out = NoResult

\* One iteration of the loop: Query2Keyword makes its completion call and
\* returns.
Q2KQueryReturns ==
    /\ b_pc = "loop"
    /\ b_idx <= Len(queries)
    /\ \E k \in Q2KKeywords :
          LET q == queries[b_idx]
              r == Q2KReformulateQuery(q, k)
          IN /\ results' = Append(results, r)
             /\ b_calls' = Append(b_calls,
                    [query |-> q, contexts |-> CtxGet(ctx_map, q.qid),
                     out |-> Returned(r), completion |-> k])
    /\ b_idx' = b_idx + 1
    /\ UNCHANGED <<queries, ctx_map, b_pc, b_out>>
    /\ UNCHANGED <<genVars, qaVars, pipeVars, newVars>>

Q2KBatchNext == Q2KQueryReturns \/ BatchQueryRaises \/ BatchReturns

\* The components that are not running.
(***************************************************************************)
(* evaluate, metric by metric (evaluation.py)                              *)
(***************************************************************************)
\* Lines of one subprocess's standard output.
MaxRows == 2

\* The metrics arguments explored.
MetricLists == {<<"ndcg_cut_10">>, <<"ndcg_cut_10", "recall_100">>}

\* Lines trec_eval may print: aggregate rows with a number, an aggregate
\* row whose third column is not a number, a per-query row, a row of two
\* columns and an empty line.
EvalLines ==
    {<<"m", " ", "a", "l", "l", " ", "7">>,
     <<"m", "\t", "a", "l", "l", "\t", "1", "2">>,
     <<"m", " ", "a", "l", "l", " ", "x">>,
     <<"m", " ", "q", "1", " ", "3">>,
     <<"m", " ", "a", "l", "l">>,
     <<>>}

\* proc.stdout.strip().splitlines()
Stdouts == UNION {[1..n -> EvalLines] : n \in 0..MaxRows}

DigitVal(c) == CHOOSE d \in 0..9 : ToString(d) = c

RECURSIVE ParseDigits(_)
ParseDigits(t) ==
    IF Len(t) = 0 THEN 0
    ELSE 10 * ParseDigits(SubSeq(t, 1, Len(t) - 1)) + DigitVal(t[Len(t)])

\* float(parts[2]) on the third columns of EvalLines: a run of digits is
\* its number, anything else raises ValueError.
ParseFloat(t) ==
    IF Len(t) > 0 /\ \A i \in 1..Len(t) : t[i] \in Digits
    THEN Returned(Float(ParseDigits(t)))
    ELSE Raised("ValueError")

\* The body of the loop over the lines: parts = line.split(); a row of at
\* least three columns whose second is "all" stores float(parts[2]); a
\* ValueError is passed over.
StoreAggregate(res, metric, line) ==
    LET parts == Tokens(line)
    IN IF Len(parts) >= 3 /\ parts[2] = <<"a", "l", "l">>
       THEN LET f == ParseFloat(parts[3])
            IN IF f.ok THEN (metric :> f.val) @@ res ELSE res
       ELSE res

RECURSIVE StoreAggregates(_, _, _)
StoreAggregates(res, metric, lines) ==
    IF Len(lines) = 0 THEN res
    ELSE StoreAggregates(StoreAggregate(res, metric, lines[1]), metric,
                         SubSeq(lines, 2, Len(lines)))

\* What one subprocess did.
Proc(kind, lines) == [kind |-> kind, lines |-> lines]

EvalIdle ==
    /\ e_metrics = <<>>
    /\ e_k = 0
    /\ e_results = NoMetrics
    /\ e_pc = "idle"
    /\ e_procs = <<>>
    /\ e_out = NoResult

\* results = {}; for metric in metrics:
EvalInit ==
    /\ e_metrics \in MetricLists
    /\ e_k = 1
    /\ e_results = NoMetrics
    /\ e_pc = "loop"
    /\ e_procs = <<>>
    /\ e_out = NoResult

\* proc.returncode != 0: warn, results[metric] = float("nan"), continue
EvalProcFails ==
    /\ e_pc = "loop" /\ e_k <= Len(e_metrics)
    /\ e_procs' = Append(e_procs, Proc("nonzero", <<>>))
    /\ e_results' = (e_metrics[e_k] :> NaN) @@ e_results
    /\ e_k' = e_k + 1
    /\ UNCHANGED <<e_metrics, e_pc, e_out>>
    /\ UNCHANGED notEval

\* The subprocess exits with 0 and its output is parsed line by line.
EvalProcPrints ==
    /\ e_pc = "loop" /\ e_k <= Len(e_metrics)
    /\ \E lines \in Stdouts :
          /\ e_procs' = Append(e_procs, Proc("zero", lines))
          /\ e_results' = StoreAggregates(e_results, e_metrics[e_k], lines)
    /\ e_k' = e_k + 1
    /\ UNCHANGED <<e_metrics, e_pc, e_out>>
    /\ UNCHANGED notEval

\* subprocess.run(..., timeout=300) raises TimeoutExpired out of evaluate.
EvalProcTimesOut ==
    /\ e_pc = "loop" /\ e_k <= Len(e_metrics)
    /\ e_procs' = Append(e_procs, Proc("timeout", <<>>))
    /\ e_pc' = "raised"
    /\ e_out' = Raised("TimeoutExpired")
    /\ UNCHANGED <<e_metrics, e_k, e_results>>
    /\ UNCHANGED notEval

\* return results
EvalReturns ==
    /\ e_pc = "loop" /\ e_k > Len(e_metrics)
    /\ e_pc' = "returned"
    /\ e_out' = Returned(e_results)
    /\ UNCHANGED <<e_metrics, e_k, e_results, e_procs>>
    /\ UNCHANGED notEval

EvalNext == EvalProcFails \/ EvalProcPrints \/ EvalProcTimesOut \/ EvalReturns

(***************************************************************************)
(* Two concurrent runs of run_pipeline.main over one output directory      *)
(***************************************************************************)
RaceRuns == 1..2

\* The datasets both runs iterate, for one LLM and one method that needs
\* no contexts.
RaceDatasets == <<"dl19", "scifact">>

RaceFile(exists, rows, by) == [exists |-> exists, rows |-> rows, by |-> by]
NoRaceFile == RaceFile(FALSE, 0, 0)

RaceDataset(r) == RaceDatasets[rc_di[r]]

\* A check that would leave a mark for the other run.
AfterExistsCheckReserved(files, d) == [files EXCEPT ![d] = RaceFile(TRUE, 0, 0)]

\* reform_file.exists() reads the directory and changes nothing in it.
AfterExistsCheck(files, d) == files

RaceIdle ==
    /\ rc_pc = [r \in RaceRuns |-> "idle"]
    /\ rc_di = [r \in RaceRuns |-> 0]
    /\ rc_n = [r \in RaceRuns |-> 0]
    /\ rc_files = [d \in {} |-> NoRaceFile]
    /\ rc_calls = [r \in RaceRuns |-> [d \in {} |-> 0]]
    /\ rc_opened = [r \in RaceRuns |-> {}]

\* Both runs are started on an empty output directory.
RaceInit ==
    /\ rc_pc = [r \in RaceRuns |-> "check"]
    /\ rc_di = [r \in RaceRuns |-> 1]
    /\ rc_n = [r \in RaceRuns |-> 0]
    /\ rc_files = [d \in Range1(RaceDatasets) |-> NoRaceFile]
    /\ rc_calls = [r \in RaceRuns |-> [d \in Range1(RaceDatasets) |-> 0]]
    /\ rc_opened = [r \in RaceRuns |-> {}]

\* if not reform_file.exists(): the run goes on to reformulate
RaceCheckAbsent ==
    \E r \in RaceRuns :
       /\ rc_pc[r] = "check"
       /\ ~rc_files[RaceDataset(r)].exists
       /\ rc_files' = AfterExistsCheck(rc_files, RaceDataset(r))
       /\ rc_pc' = [rc_pc EXCEPT ![r] = "reformulate"]
       /\ rc_n' = [rc_n EXCEPT ![r] = 0]
       /\ UNCHANGED <<rc_di, rc_calls, rc_opened>>
       /\ UNCHANGED notRace

\* else: [CACHED]
RaceCheckCached ==
    \E r \in RaceRuns :
       /\ rc_pc[r] = "check"
       /\ rc_files[RaceDataset(r)].exists
       /\ rc_pc' = [rc_pc EXCEPT ![r] = "stages"]
       /\ UNCHANGED <<rc_di, rc_n, rc_files, rc_calls, rc_opened>>
       /\ UNCHANGED notRace

\* reformulate_batch: the completion call of the next query returns.
RaceCompletion ==
    \E r \in RaceRuns :
       /\ rc_pc[r] = "reformulate"
       /\ rc_n[r] < NumQueries
       /\ rc_n' = [rc_n EXCEPT ![r] = @ + 1]
       /\ rc_calls' = [rc_calls EXCEPT ![r][RaceDataset(r)] = @ + 1]
       /\ UNCHANGED <<rc_pc, rc_di, rc_files, rc_opened>>
       /\ UNCHANGED notRace

\* reformulate_batch: the completion call of the next query raises, which
\* ends the run.
RaceCompletionRaises ==
    \E r \in RaceRuns :
       /\ rc_pc[r] = "reformulate"
       /\ rc_n[r] < NumQueries
       /\ rc_calls' = [rc_calls EXCEPT ![r][RaceDataset(r)] = @ + 1]
       /\ rc_pc' = [rc_pc EXCEPT ![r] = "aborted"]
       /\ UNCHANGED <<rc_di, rc_n, rc_files, rc_opened>>
       /\ UNCHANGED notRace

\* save_queries_tsv: open(path, "w") creates the file, or truncates it.
RaceOpen ==
    \E r \in RaceRuns :
       /\ rc_pc[r] = "reformulate"
       /\ rc_n[r] = NumQueries
       /\ rc_files' = [rc_files EXCEPT ![RaceDataset(r)] = RaceFile(TRUE, 0, r)]
       /\ rc_opened' = [rc_opened EXCEPT ![r] = @ \cup {RaceDataset(r)}]
       /\ rc_pc' = [rc_pc EXCEPT ![r] = "write"]
       /\ UNCHANGED <<rc_di, rc_n, rc_calls>>
       /\ UNCHANGED notRace

\* save_queries_tsv: the rows are written and the file is closed.
RaceClose ==
    \E r \in RaceRuns :
       /\ rc_pc[r] = "write"
       /\ rc_files' = [rc_files EXCEPT ![RaceDataset(r)] = RaceFile(TRUE, rc_n[r], r)]
       /\ rc_pc' = [rc_pc EXCEPT ![r] = "stages"]
       /\ UNCHANGED <<rc_di, rc_n, rc_calls, rc_opened>>
       /\ UNCHANGED notRace

\* Steps 2 and 3 of the triple, which make no completion call and write no
\* reformulation file; then the next dataset, or the end of main.
RaceStages ==
    \E r \in RaceRuns :
       /\ rc_pc[r] = "stages"
       /\ IF rc_di[r] < Len(RaceDatasets)
          THEN /\ rc_di' = [rc_di EXCEPT ![r] = @ + 1]
               /\ rc_pc' = [rc_pc EXCEPT ![r] = "check"]
          ELSE /\ rc_pc' = [rc_pc EXCEPT ![r] = "done"]
               /\ UNCHANGED rc_di
       /\ UNCHANGED <<rc_n, rc_files, rc_calls, rc_opened>>
       /\ UNCHANGED notRace

RaceNext ==
    \/ RaceCheckAbsent \/ RaceCheckCached \/ RaceCompletion \/ RaceCompletionRaises
    \/ RaceOpen \/ RaceClose \/ RaceStages

(***************************************************************************)
(* QAExpand._parse_list as a call                                          *)
(***************************************************************************)
\* The largest n explored.
MaxParseN == 3

\* The try block of _parse_list: _robust_json raises on text that is no
\* JSON, data.get raises on a value that is not a dict (when n > 0).
ParseListTry(raw, n, prefix) ==
    LET data == RobustJson(raw)
    IN IF ~data.ok THEN Raised("JSONDecodeError")
       ELSE IF data.t # "dict" /\ n > 0 THEN Raised("AttributeError")
       ELSE Returned([i \in 1..n |-> DictGet(data.d, <<prefix, i>>)])

\* An except clause for the decoding error only.
CaughtIfDecodeError(err) == err = "JSONDecodeError"

\* except Exception:
Caught(err) == TRUE

\* QAExpand._parse_list(raw, n, prefix)
ParseListCall(raw, n, prefix) ==
    LET try == ParseListTry(raw, n, prefix)
    IN IF try.ok THEN try
       ELSE IF Caught(try.err) THEN Returned(LineSplit(raw, n))
       ELSE try

ParseArgs(raw, n, prefix) == [fn |-> "_parse_list", raw |-> raw, n |-> n, prefix |-> prefix]

\* _parse_list is called.
ParseInit ==
    /\ c_args \in {ParseArgs(raw, n, prefix) :
                     raw \in RawSamples, n \in 0..MaxParseN, prefix \in {"question", "answer"}}
    /\ c_pc = "call"
    /\ c_out = NoResult

ParseListReturns ==
    /\ c_pc = "call" /\ c_args.fn = "_parse_list"
    /\ c_out' = ParseListCall(c_args.raw, c_args.n, c_args.prefix)
    /\ c_pc' = "done"
    /\ UNCHANGED c_args
    /\ UNCHANGED notCompose

(***************************************************************************)
(* CSQE._extract_sentences as a call                                       *)
(***************************************************************************)
\* Pieces a context-track completion is made of here.
MaxPieces == 3

\* A quoted segment, two numbered contents, a header line, a word and an
\* empty pair of quotes.
ExtractPieces ==
    {<<"\"", "S", " ", "t", "\"">>,
     <<"1", ".", " ", "d", "\n">>,
     <<"2", ":", " ", "E", " ">>,
     <<"R", "e", "l", "e", "v", "a", "n", "t", " ", "d", "o", "c", "u", "m", "e", "n", "t", "s",
       ":", "\n">>,
     <<"n", "o", " ">>,
     <<"\"", "\"">>}

\* The completions explored: up to MaxPieces pieces, one after the other.
ExtractTexts ==
    {Join(ps, <<>>) : ps \in UNION {[1..n -> ExtractPieces] : n \in 0..MaxPieces}}

ExtractArgs(text) == [fn |-> "_extract_sentences", text |-> text]

\* _extract_sentences is called.
ExtractInit ==
    /\ c_args \in {ExtractArgs(t) : t \in ExtractTexts}
    /\ c_pc = "call"
    /\ c_out = NoResult

ExtractReturns ==
    /\ c_pc = "call" /\ c_args.fn = "_extract_sentences"
    /\ c_out' = Returned(ExtractSentences(c_args.text))
    /\ c_pc' = "done"
    /\ UNCHANGED c_args
    /\ UNCHANGED notCompose

(***************************************************************************)
(* save_queries_tsv and load_queries_tsv as one call after the other       *)
(***************************************************************************)
\* The longest reformulated text explored.
MaxTextLen == 3

\* Single-line texts as a strategy leaves them: nothing to strip at the ends.
TsvChars == {"a", "\"", " "}
TsvTexts == {t \in UNION {[1..n -> TsvChars] : n \in 0..MaxTextLen} : Strip(t) = t}

\* The lists written: one or two (qid, reformulated) pairs.
TsvLists ==
    {<<<<<<"q", "1">>, t>>>> : t \in TsvTexts}
    \cup {<<<<<<"q", "1">>, t>>, <<<<"q", "2">>, u>>>> : t \in TsvTexts, u \in TsvTexts}

\* csv.writer doubles the quote characters of a field it quotes.
RECURSIVE CsvEscape(_)
CsvEscape(s) ==
    IF s = <<>> THEN <<>>
    ELSE (IF Head(s) = "\"" THEN <<"\"", "\"">> ELSE <<Head(s)>>) \o CsvEscape(Tail(s))

\* csv.writer(f, delimiter="\t") with the default QUOTE_MINIMAL: a field that
\* holds the delimiter, the quote character or a line break is quoted.
CsvField(s) ==
    IF \E i \in 1..Len(s) : s[i] \in {"\t", "\"", "\r", "\n"}
    THEN <<"\"">> \o CsvEscape(s) \o <<"\"">>
    ELSE s

\* writer.writerow([q.qid, q.reformulated]), with the default terminator
WriteRow(r) == CsvField(r[1]) \o <<"\t">> \o CsvField(r[2]) \o <<"\r", "\n">>

\* save_queries_tsv: the content of the file written
RECURSIVE SaveQueriesTsv(_)
SaveQueriesTsv(rows) ==
    IF rows = <<>> THEN <<>> ELSE WriteRow(Head(rows)) \o SaveQueriesTsv(Tail(rows))

\* for line in f, the file opened in text mode: the content cut at \n, \r\n
\* and \r.
RECURSIVE TextLines(_)
TextLines(s) ==
    IF s = <<>> THEN <<>>
    ELSE LET j == FirstIn(s, {"\r", "\n"})
         IN IF j = 0 THEN <<s>>
            ELSE LET k == IF s[j] = "\r" /\ j < Len(s) /\ s[j + 1] = "\n" THEN j + 1 ELSE j
                 IN <<SubSeq(s, 1, j - 1)>> \o TextLines(Drop(s, k))

\* line.split("\t", 1)
SplitTabOnce(line) ==
    LET j == FirstIn(line, {"\t"})
    IN IF j = 0 THEN <<line>> ELSE <<SubSeq(line, 1, j - 1), Drop(line, j)>>

\* The body of the loop of load_queries_tsv: the queries one line adds.
LoadLine(line) ==
    LET l == Strip(line)
        parts == SplitTabOnce(l)
    IN IF l = <<>> THEN <<>>
       ELSE IF Len(parts) = 2 /\ Strip(parts[2]) # <<>>
       THEN <<<<Strip(parts[1]), Strip(parts[2])>>>>
       ELSE <<>>

\* load_queries_tsv: the (qid, text) of the queries returned
RECURSIVE LoadLines(_)
LoadLines(lines) ==
    IF lines = <<>> THEN <<>> ELSE LoadLine(Head(lines)) \o LoadLines(Tail(lines))

LoadQueriesTsv(content) == LoadLines(TextLines(content))

TsvArgs(rows) == [fn |-> "save_load", rows |-> rows]

\* save_queries_tsv is called on a list.
TsvInit ==
    /\ c_args \in {TsvArgs(rows) : rows \in TsvLists}
    /\ c_pc = "call"
    /\ c_out = NoResult

\* save_queries_tsv has written the file and load_queries_tsv has read it.
TsvReturns ==
    /\ c_pc = "call" /\ c_args.fn = "save_load"
    /\ c_out' = Returned(LoadQueriesTsv(SaveQueriesTsv(c_args.rows)))
    /\ c_pc' = "done"
    /\ UNCHANGED c_args
    /\ UNCHANGED notCompose

(***************************************************************************)
(* Step 1 of run_pipeline.main for one triple, run after run               *)
(***************************************************************************)
\* The reformulation file: whether it exists, and the qids of its rows.
TsvFile(exists, rows) == [exists |-> exists, rows |-> rows]
NoTsvFile == TsvFile(FALSE, <<>>)

FileIdle ==
    /\ f_file = NoTsvFile
    /\ f_pc = "idle"
    /\ f_run = 0
    /\ f_prev = "none"

\* main reaches step 1 of the triple on an empty output directory, the
\* queries of the dataset loaded; the method needs no contexts.
Step1Init ==
    /\ queries \in UNION {[1..n -> QuerySet] : n \in 0..MaxQueries}
    /\ ctx_map = NoneOpt
    /\ b_idx = 0
    /\ results = <<>>
    /\ b_pc = "idle"
    /\ b_calls = <<>>
    /\ b_out = NoResult
    /\ f_file = NoTsvFile
    /\ f_pc = "check"
    /\ f_run = 1
    /\ f_prev = "none"

\* if not reform_file.exists(): reformulate_batch is entered
Step1CheckAbsent ==
    /\ f_pc = "check"
    /\ ~f_file.exists
    /\ f_pc' = "batch"
    /\ b_pc' = "loop"
    /\ b_idx' = 1
    /\ UNCHANGED <<queries, ctx_map, results, b_calls, b_out, f_file, f_run, f_prev>>
    /\ UNCHANGED notStep1

\* else: [CACHED]
Step1Cached ==
    /\ f_pc = "check"
    /\ f_file.exists
    /\ f_pc' = "cached"
    /\ UNCHANGED <<batchVars, f_file, f_run, f_prev>>
    /\ UNCHANGED notStep1

\* An orchestrator that saves what the batch has when it ends, raised or not.
BatchEnded == b_pc \in {"returned", "raised"}

\* save_queries_tsv is reached only when reformulate_batch returned.
BatchSucceeded == b_pc = "returned"

\* save_queries_tsv: open(path, "w") creates the file, or truncates it.
SaveOpen ==
    /\ f_pc = "batch"
    /\ BatchSucceeded
    /\ f_file' = TsvFile(TRUE, <<>>)
    /\ f_pc' = "write"
    /\ UNCHANGED <<batchVars, f_run, f_prev>>
    /\ UNCHANGED notStep1

\* save_queries_tsv: writer.writerow for the next element of the list.
SaveWriteRow ==
    /\ f_pc = "write"
    /\ Len(f_file.rows) < Len(results)
    /\ f_file' = TsvFile(TRUE, Append(f_file.rows, results[Len(f_file.rows) + 1].qid))
    /\ UNCHANGED <<batchVars, f_pc, f_run, f_prev>>
    /\ UNCHANGED notStep1

\* save_queries_tsv: the list is exhausted and the file is closed.
SaveClose ==
    /\ f_pc = "write"
    /\ Len(f_file.rows) = Len(results)
    /\ f_pc' = "saved"
    /\ UNCHANGED <<batchVars, f_file, f_run, f_prev>>
    /\ UNCHANGED notStep1

\* The run ended in step 1 (the batch raised) or went on to its end; the
\* orchestrator is run again on the same output directory.
Step1NextRun ==
    /\ \/ f_pc \in {"saved", "cached"}
       \/ f_pc = "batch" /\ b_pc = "raised"
    /\ f_run < MaxRuns
    /\ f_run' = f_run + 1
    /\ f_prev' = (IF f_pc = "batch" THEN "raised" ELSE f_pc)
    /\ f_pc' = "check"
    /\ b_idx' = 0
    /\ results' = <<>>
    /\ b_pc' = "idle"
    /\ b_calls' = <<>>
    /\ b_out' = NoResult
    /\ UNCHANGED <<queries, ctx_map, f_file>>
    /\ UNCHANGED notStep1

Step1Next ==
    \/ Step1CheckAbsent \/ Step1Cached \/ BatchQueryReturns \/ BatchQueryRaises
    \/ BatchReturns \/ SaveOpen \/ SaveWriteRow \/ SaveClose \/ Step1NextRun

NewIdle == ComposeIdle /\ StratIdle /\ EvalIdle /\ RaceIdle /\ FileIdle

(***************************************************************************)
(* Specifications                                                          *)
(***************************************************************************)
GenNext == CreateRaises \/ CreateReturns \/ SleepReturns

InitGen == GenInit /\ BatchIdle /\ QAIdle /\ PipeIdle /\ NewIdle

SpecGen == InitGen /\ [][GenNext]_vars

\* The loop body always runs to its end: the call returns or raises, and sleep returns.
SpecGenFair == SpecGen /\ WF_vars(GenNext)

InitBatch == BatchInit /\ GenIdle /\ QAIdle /\ PipeIdle /\ NewIdle

SpecBatch == InitBatch /\ [][BatchNext]_vars

InitQA == QAInit /\ GenIdle /\ BatchIdle /\ PipeIdle /\ NewIdle

SpecQA == InitQA /\ [][QANext]_vars

InitPipe == PipeInit /\ GenIdle /\ BatchIdle /\ QAIdle /\ NewIdle

SpecPipe == InitPipe /\ [][PipeNext]_vars

InitNames == NamesInit /\ GenIdle /\ BatchIdle /\ QAIdle /\ NewIdle

SpecNames == InitNames /\ [][NamesNext]_vars

OldIdle == GenIdle /\ BatchIdle /\ QAIdle /\ PipeIdle

InitCompose == ComposeInit /\ OldIdle /\ StratIdle /\ EvalIdle /\ RaceIdle /\ FileIdle

\* Any strategy of the registry is applied to one query.
InitStrat ==
    \/ StratInit /\ OldIdle /\ ComposeIdle /\ EvalIdle /\ RaceIdle /\ FileIdle
    \/ QAInit /\ GenIdle /\ BatchIdle /\ PipeIdle /\ NewIdle

SpecStrat == InitStrat /\ [][StratNext \/ QANext]_vars

InitQ2KBatch == Q2KBatchInit /\ GenIdle /\ QAIdle /\ PipeIdle /\ NewIdle

SpecQ2KBatch == InitQ2KBatch /\ [][Q2KBatchNext]_vars

InitEval == EvalInit /\ OldIdle /\ ComposeIdle /\ StratIdle /\ RaceIdle /\ FileIdle

SpecEval == InitEval /\ [][EvalNext]_vars

InitRace == RaceInit /\ OldIdle /\ ComposeIdle /\ StratIdle /\ EvalIdle /\ FileIdle

SpecRace == InitRace /\ [][RaceNext]_vars

InitParse == ParseInit /\ OldIdle /\ StratIdle /\ EvalIdle /\ RaceIdle /\ FileIdle

SpecParse == InitParse /\ [][ParseListReturns]_vars

InitExtract == ExtractInit /\ OldIdle /\ StratIdle /\ EvalIdle /\ RaceIdle /\ FileIdle

SpecExtract == InitExtract /\ [][ExtractReturns]_vars

InitTsv == TsvInit /\ OldIdle /\ StratIdle /\ EvalIdle /\ RaceIdle /\ FileIdle

SpecTsv == InitTsv /\ [][TsvReturns]_vars

InitStep1 ==
    Step1Init /\ GenIdle /\ QAIdle /\ PipeIdle /\ ComposeIdle /\ StratIdle /\ EvalIdle /\ RaceIdle

SpecStep1 == InitStep1 /\ [][Step1Next]_vars

SpecCompose == InitCompose /\ [][ComposeNext]_vars

(***************************************************************************)
(* Claims about LLMClient.generate                                         *)
(***************************************************************************)
GenDone == g_pc \in {"returned", "raised"}

AttemptEvents == SelectSeq(g_events, LAMBDA e : e.ev = "attempt")

GenShape ==
    /\ Len(AttemptEvents) <= max_retries
    /\ \A p \in 1..Len(g_events) :
          LET e == g_events[p] IN
          IF p % 2 = 1
          THEN \* the ((p+1)/2)-th attempt; only the last event may be a success
               /\ e.ev = "attempt"
               /\ e.i = (p + 1) \div 2
               /\ e.out.ok => (p = Len(g_events) /\ g_pc = "returned")
          ELSE \* the sleep that follows a failed attempt that was not the last one
               /\ e.ev = "sleep"
               /\ g_events[p - 1].ev = "attempt"
               /\ ~g_events[p - 1].out.ok
               /\ e.i = g_events[p - 1].i
               /\ e.i < max_retries
               /\ e.wait = 2 ^ e.i
               /\ p > 2 => e.wait > g_events[p - 2].wait
    /\ g_pc = "try" => Len(AttemptEvents) = attempt - 1
    /\ g_pc = "returned" =>
          LET last == g_events[Len(g_events)] IN
          /\ last.ev = "attempt" /\ last.out.ok
          /\ g_result.ok
          /\ DOMAIN g_result.val = 1..g_n
          /\ \A k \in 1..g_n : g_result.val[k] = Strip(last.out.val[k])
    /\ g_pc = "raised" =>
          LET last == g_events[Len(g_events)] IN
          /\ Len(AttemptEvents) = max_retries
          /\ last.ev = "attempt" /\ ~last.out.ok
          /\ g_result = last.out

\* C10: for max_retries = R >= 1 generate makes at most R attempts, returns
\* the completions of the first successful attempt and attempts nothing after
\* it, raises the last error when all R attempts fail, sleeps 2^i seconds
\* after the i-th failed attempt (growing waits, none after the final
\* attempt), and always terminates.
C10_GenerateBoundedRetry == [](GenShape) /\ <>(GenDone)

\* All four attempts failed: three growing sleeps, then the last error raised.
C10_Witness ==
    /\ g_pc = "raised"
    /\ max_retries = 4
    /\ Len(g_events) = 7
    /\ g_events[7].out.err # g_events[1].out.err

(***************************************************************************)
(* Claims about BaseMethod.reformulate_batch                               *)
(***************************************************************************)
\* The context list the ContextMap holds for qid, empty when it holds none.
ContextsOrEmpty(qid) ==
    IF ~ctx_map.isNone /\ qid \in DOMAIN ctx_map.val THEN ctx_map.val[qid] ELSE <<>>

\* The i-th result answers the i-th query, with the contexts of its qid.
ResultMatches(r, q) ==
    /\ r.qid = q.qid
    /\ r.original = q.text
    /\ r.ctxs = Take(ContextsOrEmpty(q.qid), CtxK)
    /\ r.n_contexts_used = Len(r.ctxs)
    /\ \E gen \in Generations :
          r = ReformulateQuery(q, Some(ContextsOrEmpty(q.qid)), gen)

\* C6: when no per-query call fails, reformulate_batch returns one result
\* per query in input order, the i-th with the i-th query's qid and its text
\* unmodified as original; a query whose qid the ContextMap lacks (or with no
\* ContextMap at all) is reformulated as with an empty context list.
C6_BatchOneResultPerQueryInOrder ==
    /\ Len(results) <= Len(queries)
    /\ \A i \in 1..Len(results) : ResultMatches(results[i], queries[i])
    /\ b_pc = "returned" =>
          /\ b_out = Returned(results)
          /\ Len(b_out.val) = Len(queries)

\* Three queries returned, one of them missing from a ContextMap that holds
\* more than context_k passages for another.
C6_Witness ==
    /\ b_pc = "returned"
    /\ Len(queries) = 3
    /\ ~ctx_map.isNone
    /\ queries[1].qid \notin DOMAIN ctx_map.val
    /\ queries[2].qid \in DOMAIN ctx_map.val
    /\ Len(ctx_map.val[queries[2].qid]) > CtxK
    /\ queries[3] = queries[1]

\* C7: a reformulate_query that raises on the i-th query ends the batch:
\* the error reaches the caller, no later query is processed and no result
\* list, partial or not, is returned.
C7_BatchFailurePropagates ==
    \A p \in 1..Len(b_calls) :
        ~b_calls[p].out.ok =>
            /\ p = Len(b_calls)
            /\ b_pc = "raised"
            /\ b_idx = p
            /\ b_out = b_calls[p].out
            /\ ~b_out.ok

\* The second of three queries raised, after one result had been collected.
C7_Witness ==
    /\ b_pc = "raised"
    /\ Len(queries) = 3
    /\ Len(b_calls) = 2
    /\ Len(results) = 1

(***************************************************************************)
(* Claims about QAExpand.reformulate_query                                 *)
(***************************************************************************)
StageNames == <<"DECOMPOSE", "ANSWER", "REFINE">>
StageIds == <<"qa_expand_subq", "qa_expand_answer", "qa_expand_refine">>

\* Every completion call of the pipeline so far has returned.
AllCompletionsReturned == \A p \in 1..Len(qa_calls) : qa_calls[p].out.ok

\* C8: the sub-question strategy issues its completion requests in the order
\* DECOMPOSE, ANSWER, REFINE, each stage once and none revisited, exactly
\* three when the completions return; the ANSWER prompt carries the parsed
\* DECOMPOSE result and the REFINE prompt the parsed ANSWER result, whether
\* parsed as JSON or recovered by the line split.
C8_ThreeStagesInOrder ==
    /\ Len(qa_calls) <= 3
    /\ \A p \in 1..Len(qa_calls) :
          /\ qa_calls[p].stage = StageNames[p]
          /\ qa_calls[p].prompt.id = StageIds[p]
          /\ p < Len(qa_calls) => qa_calls[p].out.ok
    /\ qa_pc \in {"DECOMPOSE", "ANSWER", "REFINE"} =>
          /\ AllCompletionsReturned
          /\ qa_pc = StageNames[Len(qa_calls) + 1]
    /\ (qa_pc \in {"DONE", "raised"} /\ AllCompletionsReturned) => Len(qa_calls) = 3
    /\ Len(qa_calls) >= 1 => qa_calls[1].prompt.query = qa_query.text
    /\ Len(qa_calls) >= 2 =>
          /\ Len(subquestions) = NumSubq
          /\ DOMAIN qa_calls[2].prompt.payload.d = {<<"question", i>> : i \in 1..NumSubq}
          /\ \A i \in 1..NumSubq :
                qa_calls[2].prompt.payload.d[<<"question", i>>] = subquestions[i]
          /\ subquestions = ParseList(qa_calls[1].out.val, NumSubq, "question")
    /\ Len(qa_calls) >= 3 =>
          /\ Len(answers) = NumSubq
          /\ qa_calls[3].prompt.query = qa_query.text
          /\ DOMAIN qa_calls[3].prompt.payload.d = {<<"answer", i>> : i \in 1..NumSubq}
          /\ \A i \in 1..NumSubq :
                qa_calls[3].prompt.payload.d[<<"answer", i>>] = answers[i]
          /\ answers = ParseList(qa_calls[2].out.val, NumSubq, "answer")

\* A finished pipeline whose sub-questions came from the line split and
\* whose answers came from a JSON object.
C8_Witness ==
    /\ qa_pc = "DONE"
    /\ Len(qa_calls) = 3
    /\ ~RobustJson(qa_calls[1].out.val).ok
    /\ subquestions[1] = PyStr(<<"x">>)
    /\ RobustJson(qa_calls[2].out.val).t = "dict"
    /\ answers[2] = PyStr(<<"y", "\t", "z">>)

\* C9: whatever the three completions contain, reformulate_query returns a
\* ReformulatedQuery; it fails only when a completion call itself fails.
C9_MalformedCompletionNeverRaises ==
    /\ qa_pc = "raised" => ~qa_calls[Len(qa_calls)].out.ok
    /\ (Len(qa_calls) = 3 /\ AllCompletionsReturned) => (qa_pc = "DONE" /\ qa_out.ok)


(***************************************************************************)
(* Claims about run_pipeline.main                                          *)
(***************************************************************************)
RunEnded == p_pc \in {"done", "aborted"}
EventIds == 1..Len(events)
RetrievalRaised(i) == events[i].op = "retrieve" /\ events[i].out = "raised"
ReformStageRaised(i) == events[i].op \in {"reformulate", "contexts"} /\ events[i].out = "raised"
CellOfEvent(i) == <<events[i].triple[1], events[i].triple[2], events[i].triple[3], events[i].ret>>
Called(op, cell) == \E i \in EventIds : events[i].op = op /\ CellOfEvent(i) = cell
CallReturned(op, cell) ==
    \E i \in EventIds : events[i].op = op /\ CellOfEvent(i) = cell /\ events[i].out = "ok"
Siblings(cell) ==
    {<<cell[1], cell[2], cell[3], r>> : r \in Range1(grid.retrievers) \ {cell[4]}}

\* What evaluate returns for a cell under the collaborator behaviour fixed for it.
MetricsOf(cell) ==
    Evaluate(EvalMetrics(cell[3]), env_eval[cell], CHOOSE v \in AggValues : TRUE).val

\* C1: a retrieval that raises for retriever A, leaving no run file, never
\* ends the run (only the reformulation stage can); once the run is over
\* every other retriever B of the triple has been retrieved (or found
\* cached) and, having a run file, evaluated; a finished run has written its
\* report, which has no entry for A and holds B's metrics whenever B's
\* evaluation returned.
C1_RetrievalFailureIsolated ==
    /\ p_pc = "aborted" => ReformStageRaised(Len(events))
    /\ p_pc = "done" => report.written /\ report.data = all_results
    /\ RunEnded =>
         \A i \in EventIds :
            RetrievalRaised(i) /\ CellOfEvent(i) \notin run_files =>
               /\ p_pc = "done" => CellOfEvent(i) \notin DOMAIN report.data
               /\ \A b \in Siblings(CellOfEvent(i)) :
                     /\ Called("retrieve", b) \/ b \in run_files
                     /\ b \in run_files => Called("evaluate", b)
                     /\ p_pc = "done" /\ CallReturned("evaluate", b) =>
                           /\ b \in DOMAIN report.data
                           /\ report.data[b] = MetricsOf(b)

\* The first retriever's retrieval raised and left no run file, a later
\* retriever of the same triple was retrieved after it and is in the report
\* of the finished run.
C1_Witness ==
    /\ p_pc = "done"
    /\ \E i, j \in EventIds :
          /\ i < j
          /\ RetrievalRaised(i) /\ CellOfEvent(i) \notin run_files
          /\ events[j].op = "retrieve" /\ events[j].out = "ok"
          /\ CellOfEvent(j) \in Siblings(CellOfEvent(i))
          /\ CellOfEvent(j) \in DOMAIN report.data
          /\ CellOfEvent(i) \notin DOMAIN report.data

\* C2: a run that follows a completed run over the same grid, inputs and
\* output directory makes no completion call, executes no reformulation
\* stage, does not abort, and writes a report equal to the previous one.
C2_SecondRunIdempotent ==
    run >= 2 /\ prev_run.ended = "done" =>
       /\ llm_calls = 0
       /\ \A i \in EventIds : events[i].op \notin {"reformulate", "contexts"}
       /\ p_pc # "aborted"
       /\ p_pc = "done" => report.written /\ report.data = prev_run.data

\* The second run has finished after a completed first run that reformulated
\* and reported something, and it has evaluated again.
C2_Witness ==
    /\ run = 2 /\ prev_run.ended = "done" /\ p_pc = "done"
    /\ start_files # {}
    /\ DOMAIN prev_run.data # {}
    /\ \E i \in EventIds : events[i].op = "evaluate"

RECURSIVE SumCalls(_)
SumCalls(es) == IF es = <<>> THEN 0 ELSE es[1].calls + SumCalls(Tail(es))

ReformEvents(op, t) == {i \in EventIds : events[i].op = op /\ events[i].triple = t}

C3_State ==
    /\ \A i \in EventIds :
          /\ events[i].op \in {"reformulate", "contexts"} =>
                /\ ReformFile(events[i].triple) \notin start_files
                /\ Cardinality(ReformEvents(events[i].op, events[i].triple)) = 1
          /\ events[i].op # "reformulate" => events[i].calls = 0
          /\ events[i].op = "retrieve" =>
                /\ events[i].file = ReformFile(events[i].triple)
                /\ events[i].file \in reform_files
                /\ \A j \in EventIds :
                      events[j].op = "reformulate" /\ events[j].triple = events[i].triple
                         => j < i /\ events[j].file = events[i].file
    /\ llm_calls = SumCalls(events)

C3_Step ==
    p_pc = "dataset" /\ ReformFile(CurTriple) \in reform_files =>
       /\ events' = events
       /\ llm_calls' = llm_calls
       /\ reform_files' = reform_files

\* C3: in one run a triple's reformulation (and its context retrieval) is
\* executed at most once and only for a triple whose file did not exist
\* when the run started; completion calls are made by reformulation only;
\* a step taken at a triple whose file exists calls no collaborator, makes
\* no completion call and writes no reformulation file; every retrieval of
\* the triple reads the triple's reformulation file, written before it.
C3_ReformulationAtMostOnce == [](C3_State) /\ [][C3_Step]_vars

\* In a second run, a triple found cached is retrieved again from its file,
\* and a triple reformulated in this run has fed two retrievers.
C3_Witness ==
    /\ run = 2
    /\ \E i \in EventIds :
          events[i].op = "retrieve" /\ ReformFile(events[i].triple) \in start_files
    /\ \E i, j, k \in EventIds :
          /\ events[i].op = "reformulate" /\ events[i].out = "ok"
          /\ events[j].op = "retrieve" /\ events[k].op = "retrieve"
          /\ events[j].triple = events[i].triple /\ events[k].triple = events[i].triple
          /\ events[j].ret # events[k].ret

\* C4: a run in which a reformulation failed has still gone through the
\* remaining (LLM, method) iterations and written the report with the
\* metrics of the cells that succeeded.
C4_ReformulationFailureIsolated ==
    RunEnded /\ (\E i \in EventIds : ReformStageRaised(i)) =>
       /\ p_pc = "done"
       /\ report.written
       /\ report.data = all_results

\* The metrics the report is said to hold for an evaluated cell: the value
\* of each metric that succeeded, not-a-number for each metric that failed.
ExpectedMetrics(cell) ==
    LET ms == EvalMetrics(cell[3])
    IN [m \in Range1(ms) |->
          LET k == CHOOSE j \in 1..Len(ms) : ms[j] = m
          IN IF env_eval[cell][k] = "ok" THEN Float(CHOOSE v \in AggValues : TRUE) ELSE NaN]

\* C5: the report of a finished run holds exactly the cells that have a run
\* file (a cell whose retrieval left none is absent); a cell whose
\* evaluation failed is there with not-a-number for each failed metric; no
\* value of a failed metric is zero.
C5_ReportCellsAndNaN ==
    p_pc = "done" =>
       /\ report.written
       /\ DOMAIN report.data = {c \in run_files : Called("evaluate", c)}
       /\ \A c \in DOMAIN report.data : report.data[c] = ExpectedMetrics(c)

(***************************************************************************)
(* Claims about the text-composition primitives                            *)
(***************************************************************************)
\* k copies of a token run.
RepeatTokens(ts, k) == Join(Repeat(ts, k), <<>>)

NoBreaks(s) == \A i \in 1..Len(s) : s[i] \notin {"\t", "\n", "\r"}

QuoteChars == {"\"", "'"}
TrimQuotes(s) == StripChars(StripChars(s, {"\""}), {"'"})
QuoteFree(s) == s = <<>> \/ (s[1] \notin QuoteChars /\ s[Len(s)] \notin QuoteChars)

\* k token runs of the query, then the tokens of the generated text,
\* separated by single spaces.
RunsThenGenerated(query, generated, k) ==
    JoinTokens(RepeatTokens(Tokens(query), k) \o Tokens(generated))

RepeatDone == c_pc = "done" /\ c_args.fn = "repeat"
AdaptiveDone == c_pc = "done" /\ c_args.fn = "adaptive"

C12_AdaptiveReps ==
    AdaptiveDone =>
       LET lq == IF Len(c_args.query) = 0 THEN 1 ELSE Len(c_args.query)
           quot == (Len(c_args.generated) \div lq) \div c_args.k
           reps == IF quot < 1 THEN 1 ELSE quot
       IN /\ c_out.ok
          /\ reps >= 1
          /\ c_out.val = TrimQuotes(RunsThenGenerated(c_args.query, c_args.generated, reps))

\* The empty query, and a one-character query repeated three times.
C12_Witness ==
    /\ AdaptiveDone
    /\ c_out.ok
    /\ \/ c_args.query = <<>> /\ Len(c_args.generated) >= 2
       \/ /\ c_args.query = <<"a">> /\ c_args.k = 2
          /\ c_out.val = <<"a", " ", "a", " ", "a", " ", "x", "x", "x", " ", "x", "x", "x">>

(***************************************************************************)
(* Claims about the reformulation strategies                               *)
(***************************************************************************)
StratDone(m) == s_pc = "done" /\ s_method = m
HasBreak(t) == ~NoBreaks(t)

\* C13: the reformulated field of the ReformulatedQuery any strategy of
\* the registry returns holds no newline, tab or carriage return, whatever
\* the query and the completions hold.
C13_ReformulatedSingleLine ==
    /\ s_pc = "done" => NoBreaks(s_out.val.reformulated)
    /\ qa_pc = "DONE" => NoBreaks(qa_out.val.reformulated)

\* GenQR has returned for a query with a tab and completions with a newline.
C13_Witness ==
    /\ StratDone("genqr")
    /\ HasBreak(s_query.text)
    /\ \E i \in 1..Len(s_calls) : HasBreak(s_calls[i].out[1])

\* C14 as stated: with default parameters Query2Keyword appends its one
\* completion after a single copy of the query.
C14_Q2KQueryOnce ==
    StratDone("q2k") =>
       /\ Len(s_calls) = 1
       /\ s_out.val.reformulated =
             TrimQuotes(RunsThenGenerated(s_query.text, s_calls[1].out[1], 1))

\* C14, amended: with default parameters Query2Keyword makes one completion
\* call and composes with concat_repeat: the query repeated query_repeats
\* = 5 times, then the keywords.
C14_Q2KQueryFiveTimes ==
    StratDone("q2k") =>
       /\ Len(s_calls) = 1
       /\ s_calls[1].n = 1
       /\ s_out.val.reformulated =
             TrimQuotes(RunsThenGenerated(s_query.text, s_calls[1].out[1], 5))
       /\ SubSeq(Tokens(s_out.val.reformulated), 1, 5 * Len(Tokens(s_query.text)))
             = RepeatTokens(Tokens(s_query.text), 5)

\* Query2Keyword has returned five copies of a two-token query and the keywords.
C14_Witness ==
    /\ StratDone("q2k")
    /\ s_query.text = <<"B", "\t", "c">>
    /\ s_calls[1].out[1] = <<"k", ",", " ", "m">>
    /\ s_out.val.reformulated =
          <<"B", " ", "c", " ", "B", " ", "c", " ", "B", " ", "c", " ", "B", " ", "c", " ",
            "B", " ", "c", " ", "k", ",", " ", "m">>

\* A text that normalisation leaves as it is.
IsPlain(t) == t = JoinTokens(Tokens(t)) /\ QuoteFree(t)

\* C15: the batch driver over Query2Keyword with default parameters returns
\* one result per query in input order; each is the query five times and
\* then the keyword completion, separated by single spaces (exactly
\* "q q q q q K" for a query and keywords that normalisation leaves as they
\* are), and its metadata holds the keyword completion as returned.
C15_Q2KBatchOfTwo ==
    /\ Len(results) = Len(b_calls) \/ Len(results) + 1 = Len(b_calls)
    /\ \A i \in 1..Len(results) :
          LET q == queries[i]
              k == b_calls[i].completion
          IN /\ results[i].qid = q.qid
             /\ results[i].original = q.text
             /\ results[i].metadata.keywords = k
             /\ results[i].reformulated = TrimQuotes(RunsThenGenerated(q.text, k, 5))
             /\ IsPlain(q.text) /\ IsPlain(k) =>
                   results[i].reformulated = Join(<<q.text, q.text, q.text, q.text, q.text, k>>,
                                                  <<" ">>)
    /\ b_pc = "returned" => b_out = Returned(results) /\ Len(results) = 2

\* Two plain queries with their keywords, returned in order.
C15_Witness ==
    /\ b_pc = "returned"
    /\ queries[1].text = <<"c", " ", "c">> /\ queries[2].text = <<"s", "p">>
    /\ b_calls[1].completion = <<"w", ",", " ", "e">>
    /\ b_calls[2].completion = <<"p", ",", " ", "n">>
    /\ b_out.val[1].reformulated =
          <<"c", " ", "c", " ", "c", " ", "c", " ", "c", " ", "c", " ", "c", " ", "c", " ",
            "c", " ", "c", " ", "w", ",", " ", "e">>
    /\ b_out.val[2].reformulated =
          <<"s", "p", " ", "s", "p", " ", "s", "p", " ", "s", "p", " ", "s", "p", " ",
            "p", ",", " ", "n">>

NoUpper(t) == \A i \in 1..Len(t) : \A j \in 1..Len(UpperLetters) : t[i] # UpperLetters[j]

\* The tokens of the texts of a list, in order.
TokensOfAll(ts) == Join([i \in 1..Len(ts) |-> Tokens(ts[i])], <<>>)

\* C16: CSQE returns, lower-cased and normalised, the query n_expansions
\* times, then the knowledge-track passages, then the sentences extracted
\* from the context-track completions; the context-track prompt renders
\* the first context_k passages only and n_contexts_used counts them.
C16_CsqeComposition ==
    StratDone("csqe") =>
       LET rq == s_out.val
           given == IF s_ctx.isNone THEN <<>> ELSE s_ctx.val
           first == SubSeq(given, 1, IF Len(given) < CtxK THEN Len(given) ELSE CtxK)
           sentences == [i \in 1..NGen |-> ExtractSentences(s_calls[2].out[i])]
       IN /\ Len(s_calls) = 2
          /\ s_calls[1].prompt.id = "keqe" /\ s_calls[1].prompt.payload = NoPayload
          /\ s_calls[1].n = NGen /\ s_calls[2].n = NGen
          /\ s_calls[2].prompt.payload = Payload("contexts", CtxBlob(first))
          /\ rq.metadata.n_contexts_used = Len(first)
          /\ rq.metadata.n_contexts_used <= CtxK
          /\ NoUpper(rq.reformulated)
          /\ rq.reformulated =
                Lower(TrimQuotes(JoinTokens(
                    RepeatTokens(Tokens(s_query.text), NGen)
                    \o TokensOfAll(s_calls[1].out) \o TokensOfAll(sentences))))

\* CSQE has returned for an upper-case query with more passages than
\* context_k, a quoted sentence and a numbered list in its completions.
C16_Witness ==
    /\ StratDone("csqe")
    /\ s_query.text = <<"B", "\t", "c">>
    /\ ~s_ctx.isNone /\ Len(s_ctx.val) > CtxK
    /\ s_out.val.metadata.n_contexts_used = CtxK
    /\ s_calls[2].out[1] = <<"\"", "S", "\"", " ", "x">>
    /\ s_calls[2].out[2] = <<"1", ".", " ", "d", "\n", "2", ":", " ", "E">>
    /\ s_out.val.metadata.csqe_sentences = <<<<"S">>, <<"d", " ", "E">>>>

\* The strings a strategy's metadata holds.
MetadataStrings(m, md) ==
    CASE m = "genqr" -> Range1(md.keywords)
      [] m = "genqr_ensemble" -> Range1(md.keyword_sets)
      [] m = "q2k" -> {md.keywords}
      [] m \in {"q2d_zs", "q2d_fs", "q2d_cot"} -> {md.pseudo_document}
      [] m = "mugi" -> Range1(md.pseudo_docs)
      [] m = "csqe" -> Range1(md.keqe_passages) \cup Range1(md.csqe_sentences)
      [] m = "lamer" -> Range1(md.generated_passages)

\* C19: every string generate returned during the query's reformulation
\* is in the metadata of the returned ReformulatedQuery, unmodified.
C19_RawCompletionsInMetadata ==
    s_pc = "done" =>
       \A i \in 1..Len(s_calls) : \A j \in 1..Len(s_calls[i].out) :
          s_calls[i].out[j] \in MetadataStrings(s_method, s_out.val.metadata)

(***************************************************************************)
(* Claims about names that are not keys                                    *)
(***************************************************************************)
\* The names of the grid that are not keys of the registries.
UnknownNames ==
    (Range1(grid.methods) \ MethodRegistry)
    \cup (Range1(grid.datasets) \ KnownDatasets)
    \cup (Range1(grid.retrievers) \ KnownRetrievers)

\* The names a collaborator call was made for.
NamesOf(e) == Range1(e.triple) \cup {e.ret}

\* C17: a name that is not a key is never silently ignored. The first call
\* made for it raises an error that lists the valid names and ends the run,
\* so no run over a grid with such a name reaches its end.
C17_UnknownNameFailsFast ==
    /\ \A k \in 1..Len(events) :
          NamesOf(events[k]) \cap UnknownNames # {} =>
             /\ events[k].out = "raised"
             /\ ErrorOf(events[k]).names # {}
             /\ k = Len(events)
             /\ p_pc = "aborted"
    /\ p_pc \in {"save", "done"} => UnknownNames = {}

(***************************************************************************)
(* Claims about evaluate                                                   *)
(***************************************************************************)
\* The numbers on the aggregate rows of an output that parse.
AggregatesOf(lines) ==
    {ParseFloat(Tokens(lines[i])[3]).val :
        i \in {j \in 1..Len(lines) :
                 /\ Len(Tokens(lines[j])) >= 3
                 /\ Tokens(lines[j])[2] = <<"a", "l", "l">>
                 /\ ParseFloat(Tokens(lines[j])[3]).ok}}

\* What the record is to hold for a metric whose subprocess did this.
ExpectedValues(proc) ==
    IF proc.kind = "zero" /\ AggregatesOf(proc.lines) # {}
    THEN AggregatesOf(proc.lines)
    ELSE {NaN}

\* C18: evaluate returns one entry per requested metric, the number of an
\* aggregate row of the subprocess's output, or not-a-number when the
\* subprocess exits non-zero or prints no aggregate row that parses; only a
\* timeout makes it raise.
C18_OneEntryPerMetric ==
    /\ e_pc = "returned" =>
          /\ DOMAIN e_out.val = Range1(e_metrics)
          /\ \A k \in 1..Len(e_metrics) :
                e_out.val[e_metrics[k]] \in ExpectedValues(e_procs[k])
    /\ e_pc = "raised" => e_procs[Len(e_procs)].kind = "timeout"

(***************************************************************************)
(* Claims about concurrent runs                                            *)
(***************************************************************************)
\* C20: the existence check of one run leaves nothing behind that the other
\* run could see: a reformulation file exists only once some run has opened
\* it for writing, and a run opens it only after making the completion calls
\* of all its queries itself. So while one run reformulates a triple the
\* other finds the file absent too, and both reformulate and write it.
C20_CheckExcludesNothing ==
    /\ \A d \in DOMAIN rc_files :
          rc_files[d].exists => \E r \in RaceRuns : d \in rc_opened[r]
    /\ \A r \in RaceRuns : \A d \in DOMAIN rc_files :
          /\ rc_calls[r][d] <= NumQueries
          /\ d \in rc_opened[r] => rc_calls[r][d] = NumQueries
    /\ \A r \in RaceRuns :
          rc_pc[r] = "reformulate" =>
             rc_calls[r][RaceDataset(r)] = rc_n[r]

\* Both runs have made the completion calls of the same triple and both
\* have written its reformulation file.
C20_Witness ==
    /\ \A r \in RaceRuns : rc_pc[r] = "done"
    /\ \A r \in RaceRuns :
          /\ "dl19" \in rc_opened[r]
          /\ rc_calls[r]["dl19"] = NumQueries
    /\ rc_files["dl19"] = RaceFile(TRUE, NumQueries, 2)

(***************************************************************************)
(* Claims about the completion calls of the strategies                     *)
(***************************************************************************)
\* The invocations of generate / generate_one the table gives a strategy,
\* with a count for the dual-source strategy.
TableCalls(m, dual) ==
    CASE m = "q2k" -> 1
      [] m = "genqr" -> NumCalls
      [] m = "genqr_ensemble" -> NumInstructions
      [] m \in {"q2d_zs", "q2d_fs", "q2d_cot"} -> 1
      [] m = "mugi" -> NumCalls
      [] m = "csqe" -> dual
      [] m = "lamer" -> NumCalls

\* The ensemble's prompt ids are genqr_ens_1 .. genqr_ens_10, in that order.
EnsembleIdsInOrder ==
    s_method = "genqr_ensemble" =>
       \A i \in 1..Len(s_calls) : s_calls[i].prompt.id = "genqr_ens_" \o ToString(i)

\* C21 as stated: each strategy invokes the completion client the number
\* of times of the table, the dual-source strategy 2 x n_expansions times.
C21_ClientInvocationsPerQuery ==
    /\ s_pc = "done" => Len(s_calls) = TableCalls(s_method, 2 * NGen)
    /\ qa_pc = "DONE" => Len(qa_calls) = 3
    /\ EnsembleIdsInOrder

\* C21, amended: as stated, except that the dual-source strategy invokes
\* the client twice, once per track, each invocation asking for
\* n_expansions completions (2 x n_expansions completions in all); every
\* other invocation asks for one completion. The calls are made one after
\* the other: a strategy still running has made fewer.
C21_CompletionsPerQuery ==
    /\ s_pc = "done" =>
          /\ Len(s_calls) = TableCalls(s_method, 2)
          /\ \A i \in 1..Len(s_calls) :
                /\ s_calls[i].n = (IF s_method = "csqe" THEN NGen ELSE 1)
                /\ Len(s_calls[i].out) = s_calls[i].n
          /\ s_method = "csqe" => Len(Outputs(s_calls)) = 2 * NGen
    /\ s_pc \in {"call", "raised"} => Len(s_calls) < TableCalls(s_method, 2)
    /\ qa_pc = "DONE" => Len(qa_calls) = 3
    /\ EnsembleIdsInOrder

\* The dual-source strategy has returned after its two invocations, and
\* holds n_expansions completions of each.
C21_Witness ==
    /\ StratDone("csqe")
    /\ Len(s_calls) = 2
    /\ s_calls[1].prompt.id = "keqe" /\ s_calls[2].prompt.id = "csqe"
    /\ Len(s_calls[1].out) = NGen /\ Len(s_calls[2].out) = NGen

(***************************************************************************)
(* Claims about QAExpand._parse_list                                       *)
(***************************************************************************)
ParseDone == c_pc = "done" /\ c_args.fn = "_parse_list"

\* C22: _parse_list never raises and returns exactly n entries. For text
\* that parses as a JSON object, entry i is the value under prefix<i>, or
\* the empty string when the key is absent; for any other text the entries
\* are the first n non-blank lines with the bullet characters stripped,
\* padded with empty strings.
C22_ParseListTotal ==
    ParseDone =>
       LET raw == c_args.raw
           n == c_args.n
           data == RobustJson(raw)
           nonblankLines == SelectSeq(raw.lines, LAMBDA l : Strip(l) # <<>>)
       IN /\ c_out.ok
          /\ Len(c_out.val) = n
          /\ c_out.val = ParseList(raw, n, c_args.prefix)
          /\ \A i \in 1..n :
                IF data.ok /\ data.t = "dict"
                THEN c_out.val[i] =
                        (IF <<c_args.prefix, i>> \in DOMAIN data.d
                         THEN data.d[<<c_args.prefix, i>>] ELSE EmptyStr)
                ELSE c_out.val[i] =
                        (IF i <= Len(nonblankLines)
                         THEN PyStr(StripChars(nonblankLines[i], BulletChars))
                         ELSE EmptyStr)

\* Bulleted text with a blank line, split into three entries.
C22_Witness ==
    /\ ParseDone
    /\ c_args.n = 3
    /\ c_args.raw = TextRaw(<<<<"-", " ", "x">>, <<" ", " ">>, <<"*", " ", "y", " ">>, <<"z">>>>)
    /\ c_out.val = <<PyStr(<<"x">>), PyStr(<<"y">>), PyStr(<<"z">>)>>

(***************************************************************************)
(* Claims about the REFINE stage                                           *)
(***************************************************************************)
\* The refine completion has returned and has been parsed.
Refined == Len(qa_calls) = 3 /\ qa_calls[3].out.ok

\* The refine completion parses as a JSON object whose answer<i> values,
\* where present, are strings.
IsKeptObject(raw) ==
    LET data == RobustJson(raw)
    IN /\ data.ok /\ data.t = "dict"
       /\ \A i \in 1..NumSubq :
             <<"answer", i>> \in DOMAIN data.d => data.d[<<"answer", i>>].t = "str"

\* The indices the claim keeps.
KeptByClaim(raw) ==
    IF IsKeptObject(raw)
    THEN {i \in 0..(NumSubq - 1) :
            LET d == RobustJson(raw).d
            IN <<"answer", i + 1>> \in DOMAIN d /\ Strip(d[<<"answer", i + 1>>].s) # <<>>}
    ELSE 0..(NumSubq - 1)

\* The kept answers that are not blank, each normalised, in index order.
KeptAnswerTexts ==
    LET idx == SelectSeq(kept, LAMBDA i : Strip(answers[i + 1].s) # <<>>)
    IN [j \in 1..Len(idx) |-> Clean(answers[idx[j] + 1].s)]

\* C23: after REFINE the kept indices are, ascending, the indices whose
\* answer<i+1> is present and not blank in the JSON object of the refine
\* completion, or all of 0..N-1 when the completion is no such object; the
\* query returned is concat_repeat of the query with the kept, non-blank
\* answers (each normalised) joined by spaces in index order.
C23_KeptIndicesAndFinalQuery ==
    /\ Refined =>
          /\ \A j \in 1..Len(kept) : \A k \in 1..Len(kept) : j < k => kept[j] < kept[k]
          /\ Range1(kept) = KeptByClaim(qa_calls[3].out.val)
    /\ qa_pc = "DONE" =>
          /\ Refined
          /\ qa_out.val.metadata.kept_indices = kept
          /\ qa_out.val.reformulated =
                ConcatRepeat(qa_query.text, Join(KeptAnswerTexts, <<" ">>), QueryRepeats)

\* A refine completion that keeps the second answer only: the first, not
\* blank, is left out of the final query.
C23_Witness ==
    /\ qa_pc = "DONE"
    /\ IsKeptObject(qa_calls[3].out.val)
    /\ kept = <<1>>
    /\ answers = <<PyStr(<<"x">>), PyStr(<<"y", "\t", "z">>)>>
    /\ qa_out.val.reformulated =
          ConcatRepeat(qa_query.text, <<"y", " ", "z">>, QueryRepeats)

(***************************************************************************)
(* Claims about the number of retries                                      *)
(***************************************************************************)
\* The attempts generate made after its first one.
ReAttempts ==
    Cardinality({i \in 1..Len(g_events) : g_events[i].ev = "attempt"}) - 1

\* C24: with max_retries = R, a request that keeps failing is attempted
\* again R times after its first failed attempt before the error is raised.
C24_RetriesAfterFirstAttempt ==
    g_pc = "raised" => ReAttempts = max_retries

(***************************************************************************)
(* Claims about CSQE._extract_sentences                                    *)
(***************************************************************************)
ExtractDone == c_pc = "done" /\ c_args.fn = "_extract_sentences"

\* The contents following the numeric markers of a text, each with its
\* whitespace normalised, the blank ones left out, joined by spaces.
NumberedContents(cleaned) ==
    LET chunks == FindChunks(cleaned)
        nonblank == SelectSeq(chunks, LAMBDA c : Strip(c) # <<>>)
    IN Join([i \in 1..Len(nonblank) |-> JoinTokens(Tokens(nonblank[i]))], <<" ">>)

\* A text without the header it begins with, if it begins with one.
WithoutLeadingHeader(text) == Drop(text, HeaderLen(text))

HasMarker(text) == \E i \in 1..Len(text) : MarkerAt(Drop(text, i - 1))

\* C25 as stated: the quoted segments when there is one; otherwise the
\* numbered contents of the text without its leading header.
C25_LeadingHeaderDropped ==
    ExtractDone =>
       /\ c_out.ok
       /\ c_out.val =
             (IF FindQuoted(c_args.text) # <<>>
              THEN Join(FindQuoted(c_args.text), <<" ">>)
              ELSE NumberedContents(WithoutLeadingHeader(c_args.text)))

\* C25, amended: _extract_sentences never raises; when the text has a
\* double-quoted segment the result is the segments joined by spaces in
\* order; otherwise it is the numbered contents of the text without any
\* "Relevant Document(s):" header that starts a line, at the beginning of
\* the text or further down; with neither a quoted segment nor a numeric
\* marker it is the empty string.
C25_LineHeadersDropped ==
    ExtractDone =>
       /\ c_out.ok
       /\ c_out.val =
             (IF FindQuoted(c_args.text) # <<>>
              THEN Join(FindQuoted(c_args.text), <<" ">>)
              ELSE NumberedContents(RemoveHeaders(c_args.text, TRUE)))
       /\ (FindQuoted(c_args.text) = <<>> /\ ~HasMarker(c_args.text)) => c_out.val = <<>>
       /\ FindQuoted(c_args.text) # <<>> => c_out.val # <<>>

\* A header line between two numbered contents is dropped with the header
\* lines at the beginning.
C25_Witness ==
    /\ ExtractDone
    /\ c_args.text =
          <<"1", ".", " ", "d", "\n",
            "R", "e", "l", "e", "v", "a", "n", "t", " ", "d", "o", "c", "u", "m", "e", "n", "t", "s",
            ":", "\n",
            "2", ":", " ", "E", " ">>
    /\ c_out.val = <<"d", " ", "E">>

(***************************************************************************)
(* Claims about LameR's prompt selection                                   *)
(***************************************************************************)

LamerOwnId == "lamer_" \o s_params.dataset
LamerExpectedId ==
    IF LamerOwnId \in s_params.bank THEN LamerOwnId ELSE "lamer_msmarco"

NewEvents == SubSeq(events', Len(events) + 1, Len(events'))

C27_State ==
    \A i \in 1..Len(events) :
       /\ events[i].op = "contexts" => RequiresContexts(events[i].triple[2])
       /\ events[i].op = "reformulate" =>
             IF RequiresContexts(events[i].triple[2])
             THEN /\ i > 1
                  /\ events[i - 1].op = "contexts"
                  /\ events[i - 1].out = "ok"
                  /\ events[i - 1].triple = events[i].triple
             ELSE i > 1 => events[i - 1].op # "contexts"

C27_Step ==
    LET ctx == {i \in 1..Len(NewEvents) : NewEvents[i].op = "contexts"}
    IN /\ (AtDataset /\ CurDataset \in qfiles) =>
             (ctx # {} <=> (RequiresContexts(CurMethod)
                            /\ ReformFile(CurTriple) \notin reform_files))
       /\ \A i \in ctx :
             /\ i = 1
             /\ AtDataset
             /\ NewEvents[i].triple = CurTriple

\* C27: in step 1 of a triple the orchestrator calls
\* retrieve_contexts_for_queries exactly when the method declares
\* REQUIRES_CONTEXTS and the triple's reformulation file does not exist;
\* reformulate_batch of a method without the flag is not preceded by a
\* context retrieval, and a cached triple fetches no contexts.
C27_ContextsOnlyWhenRequiredAndUncached == [](C27_State) /\ [][C27_Step]_vars

\* A second run over a grid with csqe: the first run fetched contexts and
\* wrote csqe's file, this one finds the file and fetches nothing.
C27_Witness ==
    /\ run = 2
    /\ p_pc = "retrieve"
    /\ CurMethod = "csqe"
    /\ ReformFile(CurTriple) \in start_files
    /\ \A i \in 1..Len(events) : events[i].op # "contexts"

(***************************************************************************)
(* Claims about the reformulation file                                     *)
(***************************************************************************)

QidsOf(qs) == [i \in 1..Len(qs) |-> qs[i].qid]
IsPrefix(a, b) == Len(a) <= Len(b) /\ a = SubSeq(b, 1, Len(a))

C28_State ==
    /\ (f_file.exists /\ f_pc # "write") => f_file.rows = QidsOf(queries)
    /\ f_pc = "write" => IsPrefix(f_file.rows, QidsOf(queries))
    /\ (f_pc = "batch" /\ b_pc = "raised") =>
          /\ ~f_file.exists
          /\ b_calls[Len(b_calls)].out.ok = FALSE
    /\ f_pc = "batch" => IsPrefix(QidsOf([i \in 1..Len(b_calls) |-> b_calls[i].query]),
                                   QidsOf(queries))
    /\ (f_pc = "batch" /\ b_pc = "loop" /\ f_prev = "raised") => ~f_file.exists

C28_Step ==
    f_file' # f_file =>
       /\ b_pc = "returned"
       /\ b_out.ok
       /\ QidsOf(b_out.val) = QidsOf(queries)
       /\ Len(b_calls) = Len(queries)

\* C28: the reformulation file of a triple is written only after
\* reformulate_batch returned a result for every loaded query: a batch that
\* raised on some query leaves no file, not a partial one, and the next run
\* finds none and reformulates again from the first query; once written,
\* the file holds one row per loaded query, in the order of the queries.
C28_FileOnlyAfterWholeBatch == [](C28_State) /\ [][C28_Step]_vars

\* The first run's batch raised and left no file; the second run
\* reformulated both queries again and wrote both rows.
C28_Witness ==
    /\ f_run = 2
    /\ f_prev = "raised"
    /\ f_pc = "saved"
    /\ Len(queries) = 2
    /\ Len(b_calls) = 2
    /\ f_file = TsvFile(TRUE, QidsOf(queries))

(***************************************************************************)
(* Claims about the order of the stages of a triple                        *)
(***************************************************************************)

\* The triple is iterated once by the loops of main.
IteratedOnce(t) ==
    Cardinality({x \in (DOMAIN grid.llms) \X (DOMAIN grid.methods) \X (DOMAIN grid.datasets) :
                   <<grid.llms[x[1]], grid.methods[x[2]], grid.datasets[x[3]]>> = t}) = 1

C29_State ==
    \A i \in 1..Len(events) : \A j \in 1..Len(events) :
       (/\ i < j
        /\ events[i].op = "evaluate"
        /\ events[j].triple = events[i].triple
        /\ IteratedOnce(events[i].triple)) => events[j].op # "retrieve"

C29_Step ==
    /\ \A k \in 1..Len(NewEvents) :
          LET e == NewEvents[k]
          IN /\ e.op = "retrieve" =>
                   /\ p_pc = "retrieve"
                   /\ e.triple = CurTriple /\ e.ret = CurRet
                   /\ e.file = ReformFile(CurTriple)
                   /\ ReformFile(CurTriple) \in reform_files
                   /\ CurCell \notin run_files
             /\ e.op = "evaluate" =>
                   /\ p_pc = "evaluate"
                   /\ e.triple = CurTriple /\ e.ret = CurRet
                   /\ CurCell \in run_files
    /\ (p_pc = "evaluate" /\ <<li, mi, di, run>>' = <<li, mi, di, run>>) => p_pc' # "retrieve"
    /\ (p_pc = "retrieve" /\ p_pc' = "evaluate") =>
          /\ ri = Len(grid.retrievers)
          /\ ri' = 1

C30_SaveLoadRoundTrip ==
    (c_pc = "done" /\ c_args.fn = "save_load") => c_out.val = c_args.rows

====
